---- MODULE Spec2Model ----
(***************************************************************************)
(* libax_sys_cpp: the CMM allocation / view ownership model                *)
(* (cpp/libax_sys_cpp/src/cmm.cc), Result<T> (axsys/result.hpp) and        *)
(* System (cpp/libax_sys_cpp/src/system.cc).                               *)
(*                                                                         *)
(* Threads call the public operations of CmmBuffer and CmmView.  Every     *)
(* action is one atomic section of a handler: a section that runs under    *)
(* one mutex, or a run of thread-local statements together with the        *)
(* platform call they make.  shared_ptr<Allocation> is a reference count   *)
(* (refs) plus the deleter that runs when the count reaches zero.          *)
(* SpecLock follows the same calls one lock operation at a time.           *)
(***************************************************************************)
EXTENDS Integers, Sequences, FiniteSets, TLC

VARIABLES
  buf,      \* CmmBuffer objects: live (constructed), alloc (impl_->alloc, 0 = null)
  view,     \* CmmView objects: impl_ (null or not) and the Impl fields
  alloc,    \* Allocation objects by identity, with the shared_ptr use count
  maps,     \* platform: the virtual mappings AX_SYS_Mmap* have handed out
  memFree,  \* platform: number of AX_SYS_MemFree calls made for each block
  th,       \* per thread: where it is inside a handler, and the handler's locals
  last,     \* the call that returned most recently, with its Result and the
            \* platform cache calls it made
  mem,      \* platform: the bytes of physical memory
  cache,    \* platform: the lines of the CPU cache, by physical address
  result,   \* a Result object: ok_ and error_ (code, message, message_factory)
  resultLog, \* how the Result was constructed and what its accessors returned
  sys,      \* System objects (ok_), and the AX_SYS_Init / AX_SYS_Deinit calls made
  mtx       \* the mutexes: their owners, and each thread's position between
            \* the lock operations of the call it is in

vars == <<buf, view, alloc, maps, memFree, th, last, mem, cache, result,
          resultLog, sys, mtx>>

----------------------------------------------------------------------------
(* Bounds *)

NThreads == 2
MaxBuffers == 2
MaxViews == 2
MaxAllocs == 2
MaxAllocsMT == 1
MaxSize == 2
MaxMessageCalls == 3
MaxSystems == 3
MaxInits == 3
\* width of AX_U32, scaled down; size_t is one bit wider than AX_U32
U32Bits == 2

SizeBits == U32Bits + 1
AX_U32_MAX == 2^U32Bits - 1
SIZE_MOD == 2^SizeBits

Threads == 1..NThreads
Buffers == 1..MaxBuffers
Views == 1..MaxViews
Allocs == 1..MaxAllocs
Addrs == 1..MaxViews

CacheMode == {"kNonCached", "kCached"}

\* arguments the callers pass
AllocSizeArgs == {MaxSize, AX_U32_MAX + 1}

\* size_t addition
AddSz(x, y) == (x + y) % SIZE_MOD

\* AX_U64 addition (as wide as size_t on the target)
AddU64(x, y) == (x + y) % SIZE_MOD

\* size_t subtraction
SubSz(x, y) == (x - y + SIZE_MOD) % SIZE_MOD

\* SIZE_MAX
SIZE_MAX == SIZE_MOD - 1

Min(S) == CHOOSE x \in S : \A y \in S : x <= y

----------------------------------------------------------------------------
(* Objects *)

NoAllocation == [st |-> "unused", phy |-> 0, size |-> 0, mode |-> "kNonCached",
                 owned |-> FALSE, deleter |-> "none", views |-> <<>>, refs |-> 0]

\* a destroyed Allocation (delete p)
DeadAllocation == [NoAllocation EXCEPT !.st = "dead"]

NoView == [impl |-> FALSE, alloc |-> 0, offset |-> 0, data |-> 0, size |-> 0,
           mode |-> "kNonCached"]

NoMap == [n |-> 0, key |-> <<>>]

\* physical byte addresses, and a line of the CPU cache (one byte wide)
PhysAddrs == 0..(SIZE_MOD - 1)
NoLine == [present |-> FALSE, val |-> 0, dirty |-> FALSE]

ThIdle == [pc |-> "idle", call |-> "none", b |-> 0, v |-> 0, a |-> 0, arg |-> 0,
           off |-> 0, size |-> 0, mode |-> "kNonCached", fast |-> FALSE,
           addr |-> 0, copy |-> FALSE, pre |-> "none"]

NoCall == [tick |-> 0, call |-> "none", obj |-> 0, args |-> <<>>, code |-> "none",
           io |-> <<>>]

ViewEntry(addr, size, offset, mode) ==
  [addr |-> addr, size |-> size, offset |-> offset, mode |-> mode]

\* Result<T> (result.hpp).  A std::function<std::string()> is empty or a
\* callable with the string it returns; ErrorDetail holds the code, the
\* message once made and the factory
ErrorCode == {"kSuccess", "kInvalidArgument", "kNoAllocation", "kUnknown"}
MessageTexts == {"", "Out of range", "No allocation"}
NoFactory == [callable |-> FALSE, text |-> ""]
Factory(text) == [callable |-> TRUE, text |-> text]
Factories == {NoFactory} \cup {Factory(m) : m \in MessageTexts}

ErrorDetail(c, factory) ==
  [code |-> c, message |-> "", message_factory |-> factory]

\* Result(value) / Ok, and Result(code, msg_factory) / Error
Result_Ok == [ok |-> TRUE, error |-> ErrorDetail("kSuccess", NoFactory)]
Result_Error(code, factory) == [ok |-> FALSE, error |-> ErrorDetail(code, factory)]

\* nothing has been called on the Result yet
NoLog == [ctor |-> "Ok", code |-> "kSuccess", factory |-> NoFactory,
          op |-> "none", truthy |-> TRUE, codeRet |-> "kSuccess", msgRet |-> "",
          first |-> "", messages |-> 0, invoked |-> 0]

\* System (system.hpp): each object is constructed or not, with its ok_, and
\* whether it has been moved from since it last received a value; the
\* successful AX_SYS_Init calls and the AX_SYS_Deinit calls made so far
Systems == 1..MaxSystems
NoSystem == [live |-> FALSE, ok |-> FALSE, moved |-> FALSE]
NoSystems == [obj |-> [s \in Systems |-> NoSystem], init |-> 0, deinit |-> 0]

\* the two mutexes of one Buffer and its Allocation: CmmBuffer::Impl::alloc_mtx
\* and Allocation::mtx
Mutexes == {"alloc_mtx", "mtx"}

\* the calls whose locking is followed step by step
LockOps == {"Allocate", "AttachExternal", "MapView", "MapViewFast", "Free",
            "DetachExternal", "Reset", "Dump", "Verify", "View.MapView"}

\* a thread outside any call: op is the call, fn the function it executes, copy
\* says that alloc_copy is set, impl that the call owns a CmmView::Impl (vi or
\* local_impl), code is the value it is about to return
NotInCall == [op |-> "none", fn |-> "none", pc |-> "idle", copy |-> FALSE,
              impl |-> FALSE, code |-> "none"]

\* a constructed Buffer with no Allocation: no mutex is held, no thread is
\* inside a call, impl_->alloc is null, no View exists and the registry has
\* not been accessed (access is the last access: who, what, under a.mtx or
\* not, and the size a size query found)
NoLocks == [owner |-> [m \in Mutexes |-> 0],
            at |-> [t \in Threads |-> NotInCall],
            held |-> FALSE,
            a |-> [live |-> FALSE, owned |-> FALSE, refs |-> 0, views |-> 0],
            nviews |-> [t \in Threads |-> 0],
            access |-> [by |-> 0, op |-> "none", locked |-> TRUE, n |-> 0]]

\* lifecycle state of a Buffer, from impl_->alloc and alloc->owned
BufState(b) ==
  IF buf[b].alloc = 0 THEN "Idle"
  ELSE IF alloc[buf[b].alloc].owned THEN "Owned" ELSE "Attached"

\* a thread is inside a handler of Buffer b / of View v
BufferBusy(b) == \E t \in Threads : th[t].pc # "idle" /\ th[t].b = b
ViewBusy(v) == \E t \in Threads : th[t].pc # "idle" /\ th[t].v = v

\* a View object is available to receive the result of a mapping call
LiveViews == {v \in Views : view[v].impl}
Mapping == {t \in Threads : th[t].pc \in {"alloc_map", "map_mmap", "map_register"}}

Init ==
  /\ buf = [b \in Buffers |-> [live |-> (b = 1), alloc |-> 0]]
  /\ view = [v \in Views |-> NoView]
  /\ alloc = [a \in Allocs |-> NoAllocation]
  /\ maps = [x \in Addrs |-> NoMap]
  /\ memFree = [a \in Allocs |-> 0]
  /\ th = [t \in Threads |-> ThIdle]
  /\ last = NoCall
  /\ mem = [p \in PhysAddrs |-> 0]
  /\ cache = [p \in PhysAddrs |-> NoLine]
  /\ result = Result_Ok
  /\ resultLog = NoLog
  /\ sys = NoSystems
  /\ mtx = NoLocks

----------------------------------------------------------------------------
(* shared_ptr<Allocation> *)

\* the deleter Allocate installs: AX_SYS_MemFree if owned and phy != 0
AllocateDeleterFrees(al) == al.owned /\ al.phy # 0

\* variant: the deleter frees whatever has a physical address, owned or not
DeleterFrees_IgnoresOwned(al) ==
  al.phy # 0

\* does the deleter installed on allocation record al call AX_SYS_MemFree
DeleterFrees(al) ==
  IF al.deleter = "Allocate" THEN AllocateDeleterFrees(al) ELSE FALSE

\* one shared_ptr to allocation a is destroyed or reset
ReleasedAlloc(A, a) ==
  IF A[a].refs > 1 THEN [A EXCEPT ![a].refs = @ - 1]
  ELSE [A EXCEPT ![a] = DeadAllocation]

ReleasedFree(A, F, a) ==
  IF A[a].refs = 1 /\ DeleterFrees(A[a]) THEN [F EXCEPT ![a] = @ + 1] ELSE F

\* what AX_SYS_MemFree returns: 0, or an error the deleter only prints
MemFreeResults == {0, -1}

\* the AX_SYS_MemFree call the deleter makes when the last shared_ptr to
\* allocation a is reset, returning r
MemFreeCalls(A, a, r) ==
  IF A[a].refs = 1 /\ DeleterFrees(A[a])
  THEN <<[op |-> "MemFree", phys |-> A[a].phy, data |-> 0, voff |-> 0,
          len |-> A[a].size, ret |-> r]>>
  ELSE <<>>

\* the call of thread t returns; args are the arguments the history keeps of
\* the call and io the platform cache calls it made; tick tells a call from the
\* same call repeated
ReturnArgs(t, call, obj, args, code, io) ==
  /\ th' = [th EXCEPT ![t] = ThIdle]
  /\ last' = [tick |-> IF last.call = call /\ last.obj = obj /\ last.args = args
                          /\ last.code = code /\ last.io = io
                       THEN 1 - last.tick ELSE 0,
              call |-> call, obj |-> obj, args |-> args, code |-> code, io |-> io]

ReturnIO(t, call, obj, code, io) == ReturnArgs(t, call, obj, <<>>, code, io)

\* the call of thread t returns, having made no platform cache call
Return(t, call, obj, code) == ReturnIO(t, call, obj, code, <<>>)

----------------------------------------------------------------------------
(* CmmBuffer: construction, destruction, Free, AttachExternal,             *)
(* DetachExternal                                                          *)

CmmBuffer_ctor(t) ==
  /\ th[t].pc = "idle"
  /\ \E b \in Buffers :
       /\ ~buf[b].live
       /\ b = Min({x \in Buffers : ~buf[x].live})
       /\ buf' = [buf EXCEPT ![b] = [live |-> TRUE, alloc |-> 0]]
  /\ UNCHANGED <<view, alloc, maps, memFree, th, last>>
  /\ UNCHANGED <<mem, cache, result, resultLog, sys, mtx>>

\* variant: the destructor frees an owned block itself, whoever else holds
\* the Allocation
CmmBuffer_dtor_FreesBlock(t, b) ==
  /\ th[t].pc = "idle"
  /\ buf[b].live
  /\ ~BufferBusy(b)
  /\ LET a == buf[b].alloc IN
       /\ buf' = [buf EXCEPT ![b] = [live |-> FALSE, alloc |-> 0]]
       /\ alloc' = IF a = 0 THEN alloc ELSE ReleasedAlloc(alloc, a)
       /\ memFree' = IF a # 0 /\ alloc[a].owned
                     THEN [memFree EXCEPT ![a] = @ + 1] ELSE memFree
       /\ Return(t, "~CmmBuffer", b, "kSuccess")
  /\ UNCHANGED <<view, maps>>
  /\ UNCHANGED <<mem, cache, result, resultLog, sys, mtx>>

\* variant: the destructor drops the handle without running the deleter
CmmBuffer_dtor_NoRelease(t, b) ==
  /\ th[t].pc = "idle"
  /\ buf[b].live
  /\ ~BufferBusy(b)
  /\ LET a == buf[b].alloc IN
       /\ buf' = [buf EXCEPT ![b] = [live |-> FALSE, alloc |-> 0]]
       /\ alloc' = IF a = 0 THEN alloc ELSE ReleasedAlloc(alloc, a)
       /\ memFree' = memFree
       /\ Return(t, "~CmmBuffer", b, "kSuccess")
  /\ UNCHANGED <<view, maps>>
  /\ UNCHANGED <<mem, cache, result, resultLog, sys, mtx>>

CmmBuffer_dtor(t, b) ==
  /\ th[t].pc = "idle"
  /\ buf[b].live
  /\ ~BufferBusy(b)
  /\ LET a == buf[b].alloc IN
       /\ buf' = [buf EXCEPT ![b] = [live |-> FALSE, alloc |-> 0]]
       /\ alloc' = IF a = 0 THEN alloc ELSE ReleasedAlloc(alloc, a)
       /\ memFree' = IF a = 0 THEN memFree ELSE ReleasedFree(alloc, memFree, a)
       /\ Return(t, "~CmmBuffer", b, "kSuccess")
  /\ UNCHANGED <<view, maps>>
  /\ UNCHANGED <<mem, cache, result, resultLog, sys, mtx>>

\* variant: Free without the use_count check
CmmBuffer_Free_IgnoresReferences(t, b) ==
  /\ th[t].pc = "idle"
  /\ buf[b].live
  /\ LET a == buf[b].alloc IN
       IF a = 0 THEN
         /\ Return(t, "Free", b, "kNoAllocation")
         /\ UNCHANGED <<buf, alloc, memFree>>
       ELSE IF ~alloc[a].owned THEN
         /\ Return(t, "Free", b, "kNotOwned")
         /\ UNCHANGED <<buf, alloc, memFree>>
       ELSE
         /\ buf' = [buf EXCEPT ![b].alloc = 0]
         /\ alloc' = ReleasedAlloc(alloc, a)
         /\ memFree' = ReleasedFree(alloc, memFree, a)
         /\ \E r \in MemFreeResults :
              ReturnIO(t, "Free", b, "kSuccess", MemFreeCalls(alloc, a, r))
  /\ UNCHANGED <<view, maps>>
  /\ UNCHANGED <<mem, cache, result, resultLog, sys, mtx>>

\* variant: Free without the owned check
CmmBuffer_Free_NoOwnedCheck(t, b) ==
  /\ th[t].pc = "idle"
  /\ buf[b].live
  /\ LET a == buf[b].alloc IN
       IF a = 0 THEN
         /\ Return(t, "Free", b, "kNoAllocation")
         /\ UNCHANGED <<buf, alloc, memFree>>
       ELSE IF alloc[a].refs > 1 THEN
         /\ Return(t, "Free", b, "kReferencesRemain")
         /\ UNCHANGED <<buf, alloc, memFree>>
       ELSE
         /\ buf' = [buf EXCEPT ![b].alloc = 0]
         /\ alloc' = ReleasedAlloc(alloc, a)
         /\ memFree' = ReleasedFree(alloc, memFree, a)
         /\ \E r \in MemFreeResults :
              ReturnIO(t, "Free", b, "kSuccess", MemFreeCalls(alloc, a, r))
  /\ UNCHANGED <<view, maps>>
  /\ UNCHANGED <<mem, cache, result, resultLog, sys, mtx>>

\* variant: a successful Free calls AX_SYS_MemFree but keeps impl_->alloc
CmmBuffer_Free_KeepsHandle(t, b) ==
  /\ th[t].pc = "idle"
  /\ buf[b].live
  /\ LET a == buf[b].alloc IN
       IF a = 0 THEN
         /\ Return(t, "Free", b, "kNoAllocation")
         /\ UNCHANGED <<buf, alloc, memFree>>
       ELSE IF ~alloc[a].owned THEN
         /\ Return(t, "Free", b, "kNotOwned")
         /\ UNCHANGED <<buf, alloc, memFree>>
       ELSE IF alloc[a].refs > 1 THEN
         /\ Return(t, "Free", b, "kReferencesRemain")
         /\ UNCHANGED <<buf, alloc, memFree>>
       ELSE
         /\ memFree' = [memFree EXCEPT ![a] = @ + 1]
         /\ \E r \in MemFreeResults :
              ReturnIO(t, "Free", b, "kSuccess", MemFreeCalls(alloc, a, r))
         /\ UNCHANGED <<buf, alloc>>
  /\ UNCHANGED <<view, maps>>
  /\ UNCHANGED <<mem, cache, result, resultLog, sys, mtx>>

\* variant: Free counts the Buffer's own handle as a remaining reference
CmmBuffer_Free_CountsOwnHandle(t, b) ==
  /\ th[t].pc = "idle"
  /\ buf[b].live
  /\ LET a == buf[b].alloc IN
       IF a = 0 THEN
         /\ Return(t, "Free", b, "kNoAllocation")
         /\ UNCHANGED <<buf, alloc, memFree>>
       ELSE IF ~alloc[a].owned THEN
         /\ Return(t, "Free", b, "kNotOwned")
         /\ UNCHANGED <<buf, alloc, memFree>>
       ELSE IF alloc[a].refs >= 1 THEN
         /\ Return(t, "Free", b, "kReferencesRemain")
         /\ UNCHANGED <<buf, alloc, memFree>>
       ELSE
         /\ buf' = [buf EXCEPT ![b].alloc = 0]
         /\ alloc' = ReleasedAlloc(alloc, a)
         /\ memFree' = ReleasedFree(alloc, memFree, a)
         /\ \E r \in MemFreeResults :
              ReturnIO(t, "Free", b, "kSuccess", MemFreeCalls(alloc, a, r))
  /\ UNCHANGED <<view, maps>>
  /\ UNCHANGED <<mem, cache, result, resultLog, sys, mtx>>

CmmBuffer_Free(t, b) ==
  /\ th[t].pc = "idle"
  /\ buf[b].live
  /\ LET a == buf[b].alloc IN
       IF a = 0 THEN
         /\ Return(t, "Free", b, "kNoAllocation")
         /\ UNCHANGED <<buf, alloc, memFree>>
       ELSE IF ~alloc[a].owned THEN
         /\ Return(t, "Free", b, "kNotOwned")
         /\ UNCHANGED <<buf, alloc, memFree>>
       ELSE IF alloc[a].refs > 1 THEN
         /\ Return(t, "Free", b, "kReferencesRemain")
         /\ UNCHANGED <<buf, alloc, memFree>>
       ELSE
         /\ buf' = [buf EXCEPT ![b].alloc = 0]
         /\ alloc' = ReleasedAlloc(alloc, a)
         /\ memFree' = ReleasedFree(alloc, memFree, a)
         /\ \E r \in MemFreeResults :
              ReturnIO(t, "Free", b, "kSuccess", MemFreeCalls(alloc, a, r))
  /\ UNCHANGED <<view, maps>>
  /\ UNCHANGED <<mem, cache, result, resultLog, sys, mtx>>

\* a is the Allocation object that `new Allocation()` returns: the least one
\* the program has not used yet
FreshAllocation(a) ==
  /\ alloc[a].st = "unused"
  /\ a = Min({x \in Allocs : alloc[x].st = "unused"})

\* variant: AttachExternal without the impl_->alloc check: the Buffer drops
\* what it holds and takes the new range
CmmBuffer_AttachExternal_Overwrites(t, b, phys, size, a) ==
  /\ th[t].pc = "idle"
  /\ buf[b].live
  /\ FreshAllocation(a)
  /\ LET old == buf[b].alloc
         A == IF old = 0 THEN alloc ELSE ReleasedAlloc(alloc, old)
     IN /\ alloc' = [A EXCEPT ![a] =
               [st |-> "live", phy |-> phys, size |-> size,
                mode |-> "kNonCached", owned |-> FALSE, deleter |-> "AttachExternal",
                views |-> <<>>, refs |-> 1]]
        /\ memFree' = IF old = 0 THEN memFree ELSE ReleasedFree(alloc, memFree, old)
        /\ buf' = [buf EXCEPT ![b].alloc = a]
        /\ Return(t, "AttachExternal", b, "kSuccess")
  /\ UNCHANGED <<view, maps>>
  /\ UNCHANGED <<mem, cache, result, resultLog, sys, mtx>>

\* variant: AttachExternal on a Buffer that holds an Allocation writes the new range
\* into that Allocation
CmmBuffer_AttachExternal_InPlace(t, b, phys, size, a) ==
  /\ th[t].pc = "idle"
  /\ buf[b].live
  /\ IF buf[b].alloc # 0 THEN
       /\ a = buf[b].alloc
       /\ alloc' = [alloc EXCEPT ![a].phy = phys, ![a].size = size,
                                 ![a].owned = FALSE]
       /\ UNCHANGED buf
       /\ Return(t, "AttachExternal", b, "kSuccess")
     ELSE
       /\ FreshAllocation(a)
       /\ alloc' = [alloc EXCEPT ![a] =
            [st |-> "live", phy |-> phys, size |-> size,
             mode |-> "kNonCached", owned |-> FALSE, deleter |-> "AttachExternal",
             views |-> <<>>, refs |-> 1]]
       /\ buf' = [buf EXCEPT ![b].alloc = a]
       /\ Return(t, "AttachExternal", b, "kSuccess")
  /\ UNCHANGED <<view, maps, memFree>>
  /\ UNCHANGED <<mem, cache, result, resultLog, sys, mtx>>

CmmBuffer_AttachExternal(t, b, phys, size, a) ==
  /\ th[t].pc = "idle"
  /\ buf[b].live
  /\ IF buf[b].alloc # 0 THEN
       /\ Return(t, "AttachExternal", b, "kAlreadyInitialized")
       /\ UNCHANGED <<buf, alloc>>
     ELSE
       /\ FreshAllocation(a)
       /\ alloc' = [alloc EXCEPT ![a] =
            [st |-> "live", phy |-> phys, size |-> size,
             mode |-> "kNonCached", owned |-> FALSE, deleter |-> "AttachExternal",
             views |-> <<>>, refs |-> 1]]
       /\ buf' = [buf EXCEPT ![b].alloc = a]
       /\ Return(t, "AttachExternal", b, "kSuccess")
  /\ UNCHANGED <<view, maps, memFree>>
  /\ UNCHANGED <<mem, cache, result, resultLog, sys, mtx>>

\* variant: DetachExternal without the owned check
CmmBuffer_DetachExternal_NoOwnedCheck(t, b) ==
  /\ th[t].pc = "idle"
  /\ buf[b].live
  /\ LET a == buf[b].alloc IN
       IF a = 0 THEN
         /\ Return(t, "DetachExternal", b, "kNoAllocation")
         /\ UNCHANGED <<buf, alloc, memFree>>
       ELSE IF alloc[a].refs > 1 THEN
         /\ Return(t, "DetachExternal", b, "kReferencesRemain")
         /\ UNCHANGED <<buf, alloc, memFree>>
       ELSE
         /\ buf' = [buf EXCEPT ![b].alloc = 0]
         /\ alloc' = ReleasedAlloc(alloc, a)
         /\ memFree' = ReleasedFree(alloc, memFree, a)
         /\ Return(t, "DetachExternal", b, "kSuccess")
  /\ UNCHANGED <<view, maps>>
  /\ UNCHANGED <<mem, cache, result, resultLog, sys, mtx>>

CmmBuffer_DetachExternal(t, b) ==
  /\ th[t].pc = "idle"
  /\ buf[b].live
  /\ LET a == buf[b].alloc IN
       IF a = 0 \/ alloc[a].owned THEN
         /\ Return(t, "DetachExternal", b, "kNoAllocation")
         /\ UNCHANGED <<buf, alloc, memFree>>
       ELSE IF alloc[a].refs > 1 THEN
         /\ Return(t, "DetachExternal", b, "kReferencesRemain")
         /\ UNCHANGED <<buf, alloc, memFree>>
       ELSE
         /\ buf' = [buf EXCEPT ![b].alloc = 0]
         /\ alloc' = ReleasedAlloc(alloc, a)
         /\ memFree' = ReleasedFree(alloc, memFree, a)
         /\ Return(t, "DetachExternal", b, "kSuccess")
  /\ UNCHANGED <<view, maps>>
  /\ UNCHANGED <<mem, cache, result, resultLog, sys, mtx>>

----------------------------------------------------------------------------
(* Platform: AX_SYS_Mmap, AX_SYS_MmapCache, AX_SYS_MmapFast,               *)
(* AX_SYS_MmapCacheFast, AX_SYS_Munmap.  A mapping call fails (0) or       *)
(* returns an address; addresses are identities, so a new mapping takes    *)
(* the least unused one.  A fast mapping may return the address of a live  *)
(* fast mapping of the same physical range and cache mode.                 *)

FreeAddrs == {x \in Addrs : maps[x].n = 0}

PlatformMmap(phys, size, mode, fast) ==
  {0} \cup (IF FreeAddrs = {} THEN {} ELSE {Min(FreeAddrs)})
      \cup (IF fast
            THEN {x \in Addrs : maps[x].n > 0 /\ maps[x].key = <<phys, size, mode, TRUE>>}
            ELSE {})

\* variant: DoMmap hands every size to the platform
DoMmap_NoSizeCheck(phys, size, mode, fast) ==
  PlatformMmap(phys, size, mode, fast)

DoMmap(phys, size, mode, fast) ==
  IF size > AX_U32_MAX THEN {0} ELSE PlatformMmap(phys, size, mode, fast)

MapKey(phys, size, mode, fast) == <<phys, size, mode, fast>>

Mapped(M, x, key) == [M EXCEPT ![x] = [n |-> @.n + 1, key |-> key]]

AX_SYS_Munmap(M, x) ==
  IF M[x].n <= 1 THEN [M EXCEPT ![x] = NoMap] ELSE [M EXCEPT ![x].n = @ - 1]

\* the guarded unmap of Reset and of the registration catch blocks
MunmapIfU32(M, x, size) == IF size <= AX_U32_MAX THEN AX_SYS_Munmap(M, x) ELSE M

\* View objects able to receive the View a mapping call returns
FreeSlots == {v \in Views : ~view[v].impl /\ ~ViewBusy(v)}
SlotFree == Cardinality(Mapping) < Cardinality(FreeSlots)

\* physical base the platform gives the block of allocation a
BlockPhys(a) == a

----------------------------------------------------------------------------
(* CmmBuffer::Allocate: the section under alloc_mtx, then MapView(0, size) *)

\* variant: Allocate without the impl_->alloc check under the mutex
CmmBuffer_Allocate_NoIdleCheck(t, b, size, mode, a) ==
  /\ th[t].pc = "idle"
  /\ buf[b].live
  /\ IF FALSE THEN
       /\ Return(t, "Allocate", b, "kAlreadyInitialized")
       /\ UNCHANGED <<buf, alloc, memFree>>
     ELSE IF size > AX_U32_MAX THEN
       /\ Return(t, "Allocate", b, "kMemoryTooLarge")
       /\ UNCHANGED <<buf, alloc, memFree>>
     ELSE
       \E r \in {"ok", "fail", "throw"} :
         IF r = "fail" THEN
           \* AX_SYS_MemAlloc / AX_SYS_MemAllocCached returned non-zero
           /\ Return(t, "Allocate", b, "kAllocationFailed")
           /\ UNCHANGED <<buf, alloc, memFree>>
         ELSE
             /\ FreshAllocation(a)
             /\ LET al == [st |-> "live", phy |-> BlockPhys(a), size |-> size,
                           mode |-> mode, owned |-> TRUE, deleter |-> "Allocate",
                           views |-> <<>>, refs |-> 1]
                IN
                IF r = "throw" THEN
                  \* the shared_ptr constructor throws: it has called the
                  \* deleter on the pointer, and the catch block frees again
                  /\ alloc' = [alloc EXCEPT ![a] = DeadAllocation]
                  /\ memFree' = [memFree EXCEPT ![a] =
                       @ + (IF DeleterFrees(al) THEN 1 ELSE 0) + 1]
                  /\ Return(t, "Allocate", b, "bad_alloc")
                  /\ UNCHANGED buf
                ELSE
                  /\ SlotFree
                  /\ alloc' = [alloc EXCEPT ![a] = al]
                  /\ buf' = [buf EXCEPT ![b].alloc = a]
                  /\ th' = [th EXCEPT ![t] =
                       [ThIdle EXCEPT !.pc = "alloc_map", !.call = "Allocate",
                          !.b = b, !.size = size, !.mode = mode,
                          !.pre = BufState(b)]]
                  /\ UNCHANGED <<memFree, last>>
  /\ UNCHANGED <<view, maps>>
  /\ UNCHANGED <<mem, cache, result, resultLog, sys, mtx>>

CmmBuffer_Allocate(t, b, size, mode, a) ==
  /\ th[t].pc = "idle"
  /\ buf[b].live
  /\ IF buf[b].alloc # 0 THEN
       /\ Return(t, "Allocate", b, "kAlreadyInitialized")
       /\ UNCHANGED <<buf, alloc, memFree>>
     ELSE IF size > AX_U32_MAX THEN
       /\ Return(t, "Allocate", b, "kMemoryTooLarge")
       /\ UNCHANGED <<buf, alloc, memFree>>
     ELSE
       \E r \in {"ok", "fail", "throw"} :
         IF r = "fail" THEN
           \* AX_SYS_MemAlloc / AX_SYS_MemAllocCached returned non-zero
           /\ Return(t, "Allocate", b, "kAllocationFailed")
           /\ UNCHANGED <<buf, alloc, memFree>>
         ELSE
             /\ FreshAllocation(a)
             /\ LET al == [st |-> "live", phy |-> BlockPhys(a), size |-> size,
                           mode |-> mode, owned |-> TRUE, deleter |-> "Allocate",
                           views |-> <<>>, refs |-> 1]
                IN
                IF r = "throw" THEN
                  \* the shared_ptr constructor throws: it has called the
                  \* deleter on the pointer, and the catch block frees again
                  /\ alloc' = [alloc EXCEPT ![a] = DeadAllocation]
                  /\ memFree' = [memFree EXCEPT ![a] =
                       @ + (IF DeleterFrees(al) THEN 1 ELSE 0) + 1]
                  /\ Return(t, "Allocate", b, "bad_alloc")
                  /\ UNCHANGED buf
                ELSE
                  /\ SlotFree
                  /\ alloc' = [alloc EXCEPT ![a] = al]
                  /\ buf' = [buf EXCEPT ![b].alloc = a]
                  /\ th' = [th EXCEPT ![t] =
                       [ThIdle EXCEPT !.pc = "alloc_map", !.call = "Allocate",
                          !.b = b, !.size = size, !.mode = mode,
                          !.pre = BufState(b)]]
                  /\ UNCHANGED <<memFree, last>>
  /\ UNCHANGED <<view, maps>>
  /\ UNCHANGED <<mem, cache, result, resultLog, sys, mtx>>

\* variant: the mapping call reads impl_->alloc without taking a reference
MapView_Capture_NoReference(t, b, call, off, size, mode, fast, pre) ==
  LET a == buf[b].alloc IN
  IF a = 0 THEN
    /\ Return(t, call, b, "kNoAllocation")
    /\ UNCHANGED alloc
  ELSE
    /\ alloc' = alloc
    /\ th' = [th EXCEPT ![t] =
         [ThIdle EXCEPT !.pc = "map_mmap", !.call = call, !.b = b, !.a = a,
            !.arg = off, !.off = off, !.size = size, !.mode = mode,
            !.fast = fast, !.copy = TRUE, !.pre = pre]]
    /\ UNCHANGED last

(* CmmBuffer::MapView / MapViewFast, first section: copy impl_->alloc      *)
(* under alloc_mtx                                                         *)
MapView_Capture(t, b, call, off, size, mode, fast, pre) ==
  LET a == buf[b].alloc IN
  IF a = 0 THEN
    /\ Return(t, call, b, "kNoAllocation")
    /\ UNCHANGED alloc
  ELSE
    /\ alloc' = [alloc EXCEPT ![a].refs = @ + 1]
    /\ th' = [th EXCEPT ![t] =
         [ThIdle EXCEPT !.pc = "map_mmap", !.call = call, !.b = b, !.a = a,
            !.arg = off, !.off = off, !.size = size, !.mode = mode,
            !.fast = fast, !.copy = TRUE, !.pre = pre]]
    /\ UNCHANGED last

CmmBuffer_MapView(t, b, off, size, mode, fast) ==
  /\ th[t].pc = "idle"
  /\ buf[b].live
  /\ buf[b].alloc # 0 => SlotFree
  /\ MapView_Capture(t, b, IF fast THEN "MapViewFast" ELSE "MapView",
                     off, size, mode, fast, BufState(b))
  /\ UNCHANGED <<buf, view, maps, memFree>>
  /\ UNCHANGED <<mem, cache, result, resultLog, sys, mtx>>

\* the call "return MapView(0, size, mode)" that ends Allocate
Allocate_MapView(t) ==
  /\ th[t].pc = "alloc_map"
  /\ MapView_Capture(t, th[t].b, "Allocate", 0, th[t].size, th[t].mode, FALSE,
                     th[t].pre)
  /\ UNCHANGED <<buf, view, maps, memFree>>
  /\ UNCHANGED <<mem, cache, result, resultLog, sys, mtx>>

\* variant: the range check rejects offset + size equal to the size
MapView_Mmap_RejectsEnd(t) ==
  /\ th[t].pc = "map_mmap"
  /\ LET a == th[t].a
         L == th[t]
     IN
     IF AddSz(L.off, L.size) >= alloc[a].size THEN
       /\ alloc' = ReleasedAlloc(alloc, a)
       /\ memFree' = ReleasedFree(alloc, memFree, a)
       /\ Return(t, L.call, IF L.b # 0 THEN L.b ELSE L.v, "kOutOfRange")
       /\ UNCHANGED maps
     ELSE
       \E x \in DoMmap(AddU64(alloc[a].phy, L.off), L.size, L.mode, L.fast) :
         IF x = 0 THEN
           /\ alloc' = ReleasedAlloc(alloc, a)
           /\ memFree' = ReleasedFree(alloc, memFree, a)
           /\ Return(t, L.call, IF L.b # 0 THEN L.b ELSE L.v, "kMapFailed")
           /\ UNCHANGED maps
         ELSE
           /\ maps' = Mapped(maps, x,
                             MapKey(AddU64(alloc[a].phy, L.off), L.size, L.mode, L.fast))
           /\ alloc' = [alloc EXCEPT ![a].refs = @ + 1]
           /\ th' = [th EXCEPT ![t].pc = "map_register", ![t].addr = x]
           /\ UNCHANGED <<memFree, last>>
  /\ UNCHANGED <<buf, view>>
  /\ UNCHANGED <<mem, cache, result, resultLog, sys, mtx>>

\* variant: the range check returns without releasing the copy of the shared_ptr
MapView_Mmap_KeepsReference(t) ==
  /\ th[t].pc = "map_mmap"
  /\ LET a == th[t].a
         L == th[t]
     IN
     IF AddSz(L.off, L.size) > alloc[a].size THEN
       /\ alloc' = alloc
       /\ memFree' = ReleasedFree(alloc, memFree, a)
       /\ Return(t, L.call, IF L.b # 0 THEN L.b ELSE L.v, "kOutOfRange")
       /\ UNCHANGED maps
     ELSE
       \E x \in DoMmap(AddU64(alloc[a].phy, L.off), L.size, L.mode, L.fast) :
         IF x = 0 THEN
           /\ alloc' = ReleasedAlloc(alloc, a)
           /\ memFree' = ReleasedFree(alloc, memFree, a)
           /\ Return(t, L.call, IF L.b # 0 THEN L.b ELSE L.v, "kMapFailed")
           /\ UNCHANGED maps
         ELSE
           /\ maps' = Mapped(maps, x,
                             MapKey(AddU64(alloc[a].phy, L.off), L.size, L.mode, L.fast))
           /\ alloc' = [alloc EXCEPT ![a].refs = @ + 1]
           /\ th' = [th EXCEPT ![t].pc = "map_register", ![t].addr = x]
           /\ UNCHANGED <<memFree, last>>
  /\ UNCHANGED <<buf, view>>
  /\ UNCHANGED <<mem, cache, result, resultLog, sys, mtx>>

(* CmmBuffer::MapView / MapViewFast, second section: range check, DoMmap,  *)
(* construction of the View Impl (which copies the shared_ptr)             *)
MapView_Mmap(t) ==
  /\ th[t].pc = "map_mmap"
  /\ LET a == th[t].a
         L == th[t]
     IN
     IF AddSz(L.off, L.size) > alloc[a].size THEN
       /\ alloc' = ReleasedAlloc(alloc, a)
       /\ memFree' = ReleasedFree(alloc, memFree, a)
       /\ Return(t, L.call, IF L.b # 0 THEN L.b ELSE L.v, "kOutOfRange")
       /\ UNCHANGED maps
     ELSE
       \E x \in DoMmap(AddU64(alloc[a].phy, L.off), L.size, L.mode, L.fast) :
         IF x = 0 THEN
           /\ alloc' = ReleasedAlloc(alloc, a)
           /\ memFree' = ReleasedFree(alloc, memFree, a)
           /\ Return(t, L.call, IF L.b # 0 THEN L.b ELSE L.v, "kMapFailed")
           /\ UNCHANGED maps
         ELSE
           /\ maps' = Mapped(maps, x,
                             MapKey(AddU64(alloc[a].phy, L.off), L.size, L.mode, L.fast))
           /\ alloc' = [alloc EXCEPT ![a].refs = @ + 1]
           /\ th' = [th EXCEPT ![t].pc = "map_register", ![t].addr = x]
           /\ UNCHANGED <<memFree, last>>
  /\ UNCHANGED <<buf, view>>
  /\ UNCHANGED <<mem, cache, result, resultLog, sys, mtx>>

(* MapView / MapViewFast of CmmBuffer and of CmmView, last section:        *)
(* push_back of the ViewEntry under the Allocation's mutex, then return    *)
MapView_Register(t) ==
  /\ th[t].pc = "map_register"
  /\ LET a == th[t].a
         L == th[t]
         A1 == IF L.copy THEN ReleasedAlloc(alloc, a) ELSE alloc
         F1 == IF L.copy THEN ReleasedFree(alloc, memFree, a) ELSE memFree
     IN
     \E thrown \in BOOLEAN :
       IF thrown THEN
         \* push_back throws: unmap, rethrow; the Impl and the copy are destroyed
         /\ maps' = MunmapIfU32(maps, L.addr, L.size)
         /\ alloc' = ReleasedAlloc(A1, a)
         /\ memFree' = ReleasedFree(A1, F1, a)
         /\ Return(t, L.call, IF L.b # 0 THEN L.b ELSE L.v, "bad_alloc")
         /\ UNCHANGED view
       ELSE
         \E nv \in FreeSlots :
           /\ nv = Min(FreeSlots)
           /\ alloc' = [A1 EXCEPT ![a].views =
                Append(@, ViewEntry(L.addr, L.size, L.off, L.mode))]
           /\ memFree' = F1
           /\ view' = [view EXCEPT ![nv] =
                [impl |-> TRUE, alloc |-> a, offset |-> L.off, data |-> L.addr,
                 size |-> L.size, mode |-> L.mode]]
           /\ Return(t, L.call, IF L.b # 0 THEN L.b ELSE L.v, "kSuccess")
           /\ UNCHANGED maps
  /\ UNCHANGED buf
  /\ UNCHANGED <<mem, cache, result, resultLog, sys, mtx>>

----------------------------------------------------------------------------
(* CmmView: MapView / MapViewFast, Reset (and the destructor), MakeBuffer  *)

\* variant: the offset is taken from the base of the Allocation, not of the View
CmmView_MapView_AbsoluteOffset(t, v, off, size, mode, fast) ==
  /\ th[t].pc = "idle"
  /\ ~ViewBusy(v)
  /\ LET call == IF fast THEN "View.MapViewFast" ELSE "View.MapView"
         a == view[v].alloc
         abs_off == off
     IN
     IF ~view[v].impl \/ a = 0 THEN
       /\ Return(t, call, v, "kNoAllocation")
       /\ UNCHANGED <<alloc, maps>>
     ELSE IF AddSz(off, size) > view[v].size THEN
       /\ Return(t, call, v, "kOutOfRange")
       /\ UNCHANGED <<alloc, maps>>
     ELSE
       /\ SlotFree
       /\ \E x \in DoMmap(AddU64(alloc[a].phy, abs_off), size, mode, fast) :
            IF x = 0 THEN
              /\ Return(t, call, v, "kMapFailed")
              /\ UNCHANGED <<alloc, maps>>
            ELSE
              /\ maps' = Mapped(maps, x,
                                MapKey(AddU64(alloc[a].phy, abs_off), size, mode, fast))
              /\ alloc' = [alloc EXCEPT ![a].refs = @ + 1]
              /\ th' = [th EXCEPT ![t] =
                   [ThIdle EXCEPT !.pc = "map_register", !.call = call, !.v = v,
                      !.a = a, !.arg = off, !.off = abs_off, !.size = size,
                      !.mode = mode, !.fast = fast, !.addr = x]]
              /\ UNCHANGED last
  /\ UNCHANGED <<buf, view, memFree>>
  /\ UNCHANGED <<mem, cache, result, resultLog, sys, mtx>>

CmmView_MapView(t, v, off, size, mode, fast) ==
  /\ th[t].pc = "idle"
  /\ ~ViewBusy(v)
  /\ LET call == IF fast THEN "View.MapViewFast" ELSE "View.MapView"
         a == view[v].alloc
         abs_off == AddSz(view[v].offset, off)
     IN
     IF ~view[v].impl \/ a = 0 THEN
       /\ Return(t, call, v, "kNoAllocation")
       /\ UNCHANGED <<alloc, maps>>
     ELSE IF AddSz(off, size) > view[v].size THEN
       /\ Return(t, call, v, "kOutOfRange")
       /\ UNCHANGED <<alloc, maps>>
     ELSE
       /\ SlotFree
       /\ \E x \in DoMmap(AddU64(alloc[a].phy, abs_off), size, mode, fast) :
            IF x = 0 THEN
              /\ Return(t, call, v, "kMapFailed")
              /\ UNCHANGED <<alloc, maps>>
            ELSE
              /\ maps' = Mapped(maps, x,
                                MapKey(AddU64(alloc[a].phy, abs_off), size, mode, fast))
              /\ alloc' = [alloc EXCEPT ![a].refs = @ + 1]
              /\ th' = [th EXCEPT ![t] =
                   [ThIdle EXCEPT !.pc = "map_register", !.call = call, !.v = v,
                      !.a = a, !.arg = off, !.off = abs_off, !.size = size,
                      !.mode = mode, !.fast = fast, !.addr = x]]
              /\ UNCHANGED last
  /\ UNCHANGED <<buf, view, memFree>>
  /\ UNCHANGED <<mem, cache, result, resultLog, sys, mtx>>

\* variant: every entry whose addr is x is removed, not only the first
EraseFirst_AllOfAddress(s, x) ==
  SelectSeq(s, LAMBDA e : e.addr # x)

\* the registry without its first entry whose addr is x
EraseFirst(s, x) ==
  IF \E i \in 1..Len(s) : s[i].addr = x
  THEN LET k == Min({i \in 1..Len(s) : s[i].addr = x})
       IN SubSeq(s, 1, k - 1) \o SubSeq(s, k + 1, Len(s))
  ELSE s

\* variant: Reset unmaps but leaves impl_ in place
Reset_Unmap_KeepsImpl(t, v) ==
  /\ th[t].pc = "idle"
  /\ ~ViewBusy(v)
  /\ IF ~view[v].impl THEN
       /\ Return(t, "Reset", v, "void")
       /\ UNCHANGED <<view, maps>>
     ELSE
       /\ view' = view
       /\ maps' = IF view[v].data # 0
                  THEN MunmapIfU32(maps, view[v].data, view[v].size)
                  ELSE maps
       /\ th' = [th EXCEPT ![t] =
            [ThIdle EXCEPT !.pc = IF view[v].data # 0 /\ view[v].alloc # 0
                                  THEN "reset_erase" ELSE "reset_delete",
               !.call = "Reset", !.v = v, !.a = view[v].alloc,
               !.addr = view[v].data, !.size = view[v].size]]
       /\ UNCHANGED last
  /\ UNCHANGED <<buf, alloc, memFree>>
  /\ UNCHANGED <<mem, cache, result, resultLog, sys, mtx>>

\* Reset, first part: impl_ = nullptr and AX_SYS_Munmap
Reset_Unmap(t, v) ==
  /\ th[t].pc = "idle"
  /\ ~ViewBusy(v)
  /\ IF ~view[v].impl THEN
       /\ Return(t, "Reset", v, "void")
       /\ UNCHANGED <<view, maps>>
     ELSE
       /\ view' = [view EXCEPT ![v] = NoView]
       /\ maps' = IF view[v].data # 0
                  THEN MunmapIfU32(maps, view[v].data, view[v].size)
                  ELSE maps
       /\ th' = [th EXCEPT ![t] =
            [ThIdle EXCEPT !.pc = IF view[v].data # 0 /\ view[v].alloc # 0
                                  THEN "reset_erase" ELSE "reset_delete",
               !.call = "Reset", !.v = v, !.a = view[v].alloc,
               !.addr = view[v].data, !.size = view[v].size]]
       /\ UNCHANGED last
  /\ UNCHANGED <<buf, alloc, memFree>>
  /\ UNCHANGED <<mem, cache, result, resultLog, sys, mtx>>

\* variant: the removal of the entry is lost
Reset_Erase_Lost(t) ==
  /\ th[t].pc = "reset_erase"
  /\ alloc' = alloc
  /\ th' = [th EXCEPT ![t].pc = "reset_delete"]
  /\ UNCHANGED <<buf, view, maps, memFree, last>>
  /\ UNCHANGED <<mem, cache, result, resultLog, sys, mtx>>

\* Reset, second part: remove the entry from the registry under the mutex
Reset_Erase(t) ==
  /\ th[t].pc = "reset_erase"
  /\ alloc' = [alloc EXCEPT ![th[t].a].views = EraseFirst(@, th[t].addr)]
  /\ th' = [th EXCEPT ![t].pc = "reset_delete"]
  /\ UNCHANGED <<buf, view, maps, memFree, last>>
  /\ UNCHANGED <<mem, cache, result, resultLog, sys, mtx>>

\* Reset, last part: delete local_impl, which destroys its shared_ptr
Reset_Delete(t) ==
  /\ th[t].pc = "reset_delete"
  /\ th[t].call = "Reset"
  /\ LET a == th[t].a IN
       /\ alloc' = IF a = 0 THEN alloc ELSE ReleasedAlloc(alloc, a)
       /\ memFree' = IF a = 0 THEN memFree ELSE ReleasedFree(alloc, memFree, a)
       /\ Return(t, "Reset", th[t].v, "void")
  /\ UNCHANGED <<buf, view, maps>>
  /\ UNCHANGED <<mem, cache, result, resultLog, sys, mtx>>

\* variant: operator= takes other's Impl without the Reset of its own
CmmView_move_assign_NoReset(t, v, other) ==
  /\ th[t].pc = "idle"
  /\ ~ViewBusy(v) /\ ~ViewBusy(other)
  /\ IF v = other THEN UNCHANGED view
     ELSE view' = [view EXCEPT ![v] = view[other], ![other] = NoView]
  /\ Return(t, "View.operator=", v, "void")
  /\ UNCHANGED <<buf, alloc, maps, memFree>>
  /\ UNCHANGED <<mem, cache, result, resultLog, sys, mtx>>

\* CmmView::operator=(CmmView&& other), first part: nothing on
\* self-assignment; otherwise Reset() as far as impl_ = nullptr and
\* AX_SYS_Munmap, or all of operator= when the View is empty
CmmView_move_assign(t, v, other) ==
  /\ th[t].pc = "idle"
  /\ ~ViewBusy(v) /\ ~ViewBusy(other)
  /\ IF v = other THEN
       /\ Return(t, "View.operator=", v, "void")
       /\ UNCHANGED <<view, maps>>
     ELSE IF ~view[v].impl THEN
       /\ view' = [view EXCEPT ![v] = view[other], ![other] = NoView]
       /\ Return(t, "View.operator=", v, "void")
       /\ UNCHANGED maps
     ELSE
       /\ view' = [view EXCEPT ![v] = NoView]
       /\ maps' = IF view[v].data # 0
                  THEN MunmapIfU32(maps, view[v].data, view[v].size)
                  ELSE maps
       /\ th' = [th EXCEPT ![t] =
            [ThIdle EXCEPT !.pc = IF view[v].data # 0 /\ view[v].alloc # 0
                                  THEN "reset_erase" ELSE "reset_delete",
               !.call = "View.operator=", !.v = v, !.a = view[v].alloc,
               !.addr = view[v].data, !.size = view[v].size, !.arg = other]]
       /\ UNCHANGED last
  /\ UNCHANGED <<buf, alloc, memFree>>
  /\ UNCHANGED <<mem, cache, result, resultLog, sys, mtx>>

\* operator=, last part (after the registry entry is removed as in Reset):
\* delete local_impl, then impl_ = other.impl_ and other.impl_ = nullptr
MoveAssign_Take(t) ==
  /\ th[t].pc = "reset_delete"
  /\ th[t].call = "View.operator="
  /\ LET a == th[t].a
         v == th[t].v
         other == th[t].arg
     IN
       /\ alloc' = IF a = 0 THEN alloc ELSE ReleasedAlloc(alloc, a)
       /\ memFree' = IF a = 0 THEN memFree ELSE ReleasedFree(alloc, memFree, a)
       /\ view' = [view EXCEPT ![v] = view[other], ![other] = NoView]
       /\ Return(t, "View.operator=", v, "void")
  /\ UNCHANGED <<buf, maps>>
  /\ UNCHANGED <<mem, cache, result, resultLog, sys, mtx>>

\* variant: the new Buffer points at the Allocation without holding a reference
CmmView_MakeBuffer_NoReference(t, v) ==
  /\ th[t].pc = "idle"
  /\ ~ViewBusy(v)
  /\ IF ~view[v].impl \/ view[v].alloc = 0 THEN
       /\ Return(t, "MakeBuffer", v, "kNoAllocation")
       /\ UNCHANGED <<buf, alloc>>
     ELSE
       \E nb \in Buffers :
         /\ ~buf[nb].live
         /\ nb = Min({x \in Buffers : ~buf[x].live})
         /\ buf' = [buf EXCEPT ![nb] = [live |-> TRUE, alloc |-> view[v].alloc]]
         /\ alloc' = alloc
         /\ Return(t, "MakeBuffer", v, "kSuccess")
  /\ UNCHANGED <<view, maps, memFree>>
  /\ UNCHANGED <<mem, cache, result, resultLog, sys, mtx>>

CmmView_MakeBuffer(t, v) ==
  /\ th[t].pc = "idle"
  /\ ~ViewBusy(v)
  /\ IF ~view[v].impl \/ view[v].alloc = 0 THEN
       /\ Return(t, "MakeBuffer", v, "kNoAllocation")
       /\ UNCHANGED <<buf, alloc>>
     ELSE
       \E nb \in Buffers :
         /\ ~buf[nb].live
         /\ nb = Min({x \in Buffers : ~buf[x].live})
         /\ buf' = [buf EXCEPT ![nb] = [live |-> TRUE, alloc |-> view[v].alloc]]
         /\ alloc' = [alloc EXCEPT ![view[v].alloc].refs = @ + 1]
         /\ Return(t, "MakeBuffer", v, "kSuccess")
  /\ UNCHANGED <<view, maps, memFree>>
  /\ UNCHANGED <<mem, cache, result, resultLog, sys, mtx>>

----------------------------------------------------------------------------
(* Accessors of CmmView and CmmBuffer *)

Data(v) == IF view[v].impl THEN view[v].data ELSE 0
Size(v) == IF view[v].impl THEN view[v].size ELSE 0
Mode(v) == IF view[v].impl THEN view[v].mode ELSE "kNonCached"
Offset(v) == IF view[v].impl THEN view[v].offset ELSE 0
Phys(v) ==
  IF view[v].impl /\ view[v].alloc # 0
  THEN AddU64(alloc[view[v].alloc].phy, view[v].offset) ELSE 0
\* explicit operator bool
IsMapped(v) == view[v].impl /\ view[v].data # 0 /\ view[v].size > 0

BufferPhys(b) == IF buf[b].alloc = 0 THEN 0 ELSE alloc[buf[b].alloc].phy
BufferSize(b) == IF buf[b].alloc = 0 THEN 0 ELSE alloc[buf[b].alloc].size

----------------------------------------------------------------------------
(* CmmView::Flush and CmmView::Invalidate.  A platform cache call is       *)
(* recorded with the physical address, the virtual address (the mapping    *)
(* and the byte offset into it) and the length it is given.                *)

\* variant: the resolved length is the size of the whole View
ActualSize_WholeView(vsize, offset, size) ==
  IF size = SIZE_MAX \/ AddSz(offset, size) > vsize
  THEN vsize ELSE size

\* the length Flush / Invalidate resolve from their size argument
ActualSize(vsize, offset, size) ==
  IF size = SIZE_MAX \/ AddSz(offset, size) > vsize
  THEN SubSz(vsize, offset) ELSE size

\* physical byte p lies in the range of platform cache call c
InCall(c, p) == \E k \in 0..(c.len - 1) : AddU64(c.phys, k) = p

\* memory and cache after platform cache call c: AX_SYS_MflushCache writes
\* the dirty lines of the range back to memory, AX_SYS_MinvalidateCache
\* discards the lines of the range; a call that fails does nothing
CacheCall_Effect(S, c) ==
  IF c.ret # 0 THEN S
  ELSE IF c.op = "AX_SYS_MflushCache" THEN
    [mem |-> [p \in PhysAddrs |->
                IF InCall(c, p) /\ S.cache[p].present /\ S.cache[p].dirty
                THEN S.cache[p].val ELSE S.mem[p]],
     cache |-> [p \in PhysAddrs |->
                  IF InCall(c, p) THEN [S.cache[p] EXCEPT !.dirty = FALSE]
                  ELSE S.cache[p]]]
  ELSE
    [mem |-> S.mem,
     cache |-> [p \in PhysAddrs |->
                  IF InCall(c, p) THEN NoLine ELSE S.cache[p]]]

RECURSIVE CacheCalls_Effect(_, _)
CacheCalls_Effect(S, io) ==
  IF io = <<>> THEN S
  ELSE CacheCalls_Effect(CacheCall_Effect(S, Head(io)), Tail(io))

\* the platform calls of the chunk loop, were none of them to fail (ret is
\* what the platform returns)
RECURSIVE Chunks(_, _, _, _, _)
Chunks(op, phys, data, voff, remain) ==
  IF remain = 0 THEN <<>>
  ELSE LET chunk == IF remain > AX_U32_MAX THEN AX_U32_MAX ELSE remain
       IN <<[op |-> op, phys |-> phys, data |-> data, voff |-> voff, len |-> chunk,
             ret |-> 0]>>
          \o Chunks(op, AddU64(phys, chunk), data, AddSz(voff, chunk), remain - chunk)

\* variant: Flush / Invalidate start at the range check
CacheOp_NoInitCheck(t, v, offset, size, call, op, failed) ==
  /\ th[t].pc = "idle"
  /\ ~ViewBusy(v)
  /\ IF FALSE THEN
       ReturnArgs(t, call, v, <<offset, size>>, "kNotInitialized", <<>>)
     ELSE IF offset >= view[v].size THEN
       ReturnArgs(t, call, v, <<offset, size>>, "kOutOfRange", <<>>)
     ELSE IF ActualSize(view[v].size, offset, size) = 0 THEN
       ReturnArgs(t, call, v, <<offset, size>>, "kInvalidArgument", <<>>)
     ELSE
       LET phys == AddU64(AddU64(alloc[view[v].alloc].phy, view[v].offset), offset)
           all == Chunks(op, phys, view[v].data, offset,
                         ActualSize(view[v].size, offset, size))
       IN \E k \in 0..Len(all) :
            \* the first k platform calls succeed; the next one, if any, fails
            IF k < Len(all)
            THEN ReturnArgs(t, call, v, <<offset, size>>, failed,
                            SubSeq(all, 1, k) \o <<[all[k + 1] EXCEPT !.ret = -1]>>)
            ELSE ReturnArgs(t, call, v, <<offset, size>>, "kSuccess", all)
  /\ UNCHANGED <<buf, view, alloc, maps, memFree>>
  /\ LET r == CacheCalls_Effect([mem |-> mem, cache |-> cache], last'.io)
     IN mem' = r.mem /\ cache' = r.cache
  /\ UNCHANGED <<result, resultLog, sys, mtx>>

\* variant: the zero-length check comes before the range check
CacheOp_ZeroLengthFirst(t, v, offset, size, call, op, failed) ==
  /\ th[t].pc = "idle"
  /\ ~ViewBusy(v)
  /\ IF ~view[v].impl \/ view[v].alloc = 0 \/ view[v].data = 0 THEN
       ReturnArgs(t, call, v, <<offset, size>>, "kNotInitialized", <<>>)
     ELSE IF ActualSize(view[v].size, offset, size) = 0 THEN
       ReturnArgs(t, call, v, <<offset, size>>, "kInvalidArgument", <<>>)
     ELSE IF offset >= view[v].size THEN
       ReturnArgs(t, call, v, <<offset, size>>, "kOutOfRange", <<>>)
     ELSE
       LET phys == AddU64(AddU64(alloc[view[v].alloc].phy, view[v].offset), offset)
           all == Chunks(op, phys, view[v].data, offset,
                         ActualSize(view[v].size, offset, size))
       IN \E k \in 0..Len(all) :
            \* the first k platform calls succeed; the next one, if any, fails
            IF k < Len(all)
            THEN ReturnArgs(t, call, v, <<offset, size>>, failed,
                            SubSeq(all, 1, k) \o <<[all[k + 1] EXCEPT !.ret = -1]>>)
            ELSE ReturnArgs(t, call, v, <<offset, size>>, "kSuccess", all)
  /\ UNCHANGED <<buf, view, alloc, maps, memFree>>
  /\ LET r == CacheCalls_Effect([mem |-> mem, cache |-> cache], last'.io)
     IN mem' = r.mem /\ cache' = r.cache
  /\ UNCHANGED <<result, resultLog, sys, mtx>>

\* variant: a failed platform call ends the loop but success is returned
CacheOp_IgnoresFailure(t, v, offset, size, call, op, failed) ==
  /\ th[t].pc = "idle"
  /\ ~ViewBusy(v)
  /\ IF ~view[v].impl \/ view[v].alloc = 0 \/ view[v].data = 0 THEN
       ReturnArgs(t, call, v, <<offset, size>>, "kNotInitialized", <<>>)
     ELSE IF offset >= view[v].size THEN
       ReturnArgs(t, call, v, <<offset, size>>, "kOutOfRange", <<>>)
     ELSE IF ActualSize(view[v].size, offset, size) = 0 THEN
       ReturnArgs(t, call, v, <<offset, size>>, "kInvalidArgument", <<>>)
     ELSE
       LET phys == AddU64(AddU64(alloc[view[v].alloc].phy, view[v].offset), offset)
           all == Chunks(op, phys, view[v].data, offset,
                         ActualSize(view[v].size, offset, size))
       IN \E k \in 0..Len(all) :
            \* the first k platform calls succeed; the next one, if any, fails
            IF k < Len(all)
            THEN ReturnArgs(t, call, v, <<offset, size>>, "kSuccess",
                            SubSeq(all, 1, k) \o <<[all[k + 1] EXCEPT !.ret = -1]>>)
            ELSE ReturnArgs(t, call, v, <<offset, size>>, "kSuccess", all)
  /\ UNCHANGED <<buf, view, alloc, maps, memFree>>
  /\ LET r == CacheCalls_Effect([mem |-> mem, cache |-> cache], last'.io)
     IN mem' = r.mem /\ cache' = r.cache
  /\ UNCHANGED <<result, resultLog, sys, mtx>>

\* variant: the platform is given the physical address of the start of the View
CacheOp_FromViewStart(t, v, offset, size, call, op, failed) ==
  /\ th[t].pc = "idle"
  /\ ~ViewBusy(v)
  /\ IF ~view[v].impl \/ view[v].alloc = 0 \/ view[v].data = 0 THEN
       ReturnArgs(t, call, v, <<offset, size>>, "kNotInitialized", <<>>)
     ELSE IF offset >= view[v].size THEN
       ReturnArgs(t, call, v, <<offset, size>>, "kOutOfRange", <<>>)
     ELSE IF ActualSize(view[v].size, offset, size) = 0 THEN
       ReturnArgs(t, call, v, <<offset, size>>, "kInvalidArgument", <<>>)
     ELSE
       LET phys == AddU64(alloc[view[v].alloc].phy, view[v].offset)
           all == Chunks(op, phys, view[v].data, offset,
                         ActualSize(view[v].size, offset, size))
       IN \E k \in 0..Len(all) :
            \* the first k platform calls succeed; the next one, if any, fails
            IF k < Len(all)
            THEN ReturnArgs(t, call, v, <<offset, size>>, failed,
                            SubSeq(all, 1, k) \o <<[all[k + 1] EXCEPT !.ret = -1]>>)
            ELSE ReturnArgs(t, call, v, <<offset, size>>, "kSuccess", all)
  /\ UNCHANGED <<buf, view, alloc, maps, memFree>>
  /\ LET r == CacheCalls_Effect([mem |-> mem, cache |-> cache], last'.io)
     IN mem' = r.mem /\ cache' = r.cache
  /\ UNCHANGED <<result, resultLog, sys, mtx>>

CacheOp(t, v, offset, size, call, op, failed) ==
  /\ th[t].pc = "idle"
  /\ ~ViewBusy(v)
  /\ IF ~view[v].impl \/ view[v].alloc = 0 \/ view[v].data = 0 THEN
       ReturnArgs(t, call, v, <<offset, size>>, "kNotInitialized", <<>>)
     ELSE IF offset >= view[v].size THEN
       ReturnArgs(t, call, v, <<offset, size>>, "kOutOfRange", <<>>)
     ELSE IF ActualSize(view[v].size, offset, size) = 0 THEN
       ReturnArgs(t, call, v, <<offset, size>>, "kInvalidArgument", <<>>)
     ELSE
       LET phys == AddU64(AddU64(alloc[view[v].alloc].phy, view[v].offset), offset)
           all == Chunks(op, phys, view[v].data, offset,
                         ActualSize(view[v].size, offset, size))
       IN \E k \in 0..Len(all) :
            \* the first k platform calls succeed; the next one, if any, fails
            IF k < Len(all)
            THEN ReturnArgs(t, call, v, <<offset, size>>, failed,
                            SubSeq(all, 1, k) \o <<[all[k + 1] EXCEPT !.ret = -1]>>)
            ELSE ReturnArgs(t, call, v, <<offset, size>>, "kSuccess", all)
  /\ UNCHANGED <<buf, view, alloc, maps, memFree>>
  /\ LET r == CacheCalls_Effect([mem |-> mem, cache |-> cache], last'.io)
     IN mem' = r.mem /\ cache' = r.cache
  /\ UNCHANGED <<result, resultLog, sys, mtx>>

CmmView_Flush(t, v, offset, size) ==
  CacheOp(t, v, offset, size, "Flush", "AX_SYS_MflushCache", "kFlushFailed")

\* variant: Invalidate calls the platform flush
CmmView_Invalidate_Flushes(t, v, offset, size) ==
  CacheOp(t, v, offset, size, "Invalidate", "AX_SYS_MflushCache",
          "kInvalidateFailed")

CmmView_Invalidate(t, v, offset, size) ==
  CacheOp(t, v, offset, size, "Invalidate", "AX_SYS_MinvalidateCache",
          "kInvalidateFailed")

----------------------------------------------------------------------------
(* The mapped memory: the program stores and loads bytes through Data() of *)
(* a View (memset, memcmp).  A non-cached mapping reaches memory; a cached *)
(* mapping goes through the CPU cache, which fills a line on a load miss,  *)
(* holds a stored byte in a dirty line, and may write a dirty line back    *)
(* and drop a line at any time.                                            *)

\* the physical address of byte i of View v
ByteAddr(v, i) == AddU64(Phys(v), i)

\* the byte a load through a mapping of cache mode `mode` gets at address p
LoadByte(M, C, mode, p) ==
  IF mode = "kCached" /\ C[p].present THEN C[p].val ELSE M[p]

\* the byte a load of Data()[i] of View v gets
Load(v, i) == LoadByte(mem, cache, Mode(v), ByteAddr(v, i))

\* Data()[i] = val
CmmView_Store(t, v, i, val) ==
  /\ th[t].pc = "idle"
  /\ ~ViewBusy(v)
  /\ IsMapped(v)
  /\ i < Size(v)
  /\ IF Mode(v) = "kCached" THEN
       /\ cache' = [cache EXCEPT ![ByteAddr(v, i)] =
            [present |-> TRUE, val |-> val, dirty |-> TRUE]]
       /\ UNCHANGED mem
     ELSE
       /\ mem' = [mem EXCEPT ![ByteAddr(v, i)] = val]
       /\ UNCHANGED cache
  /\ UNCHANGED <<buf, view, alloc, maps, memFree, th, last>>
  /\ UNCHANGED <<result, resultLog, sys, mtx>>

\* a load of Data()[i] through a cached View that misses fills the line
CmmView_Load(t, v, i) ==
  /\ th[t].pc = "idle"
  /\ ~ViewBusy(v)
  /\ IsMapped(v)
  /\ i < Size(v)
  /\ Mode(v) = "kCached"
  /\ ~cache[ByteAddr(v, i)].present
  /\ cache' = [cache EXCEPT ![ByteAddr(v, i)] =
       [present |-> TRUE, val |-> mem[ByteAddr(v, i)], dirty |-> FALSE]]
  /\ UNCHANGED <<buf, view, alloc, maps, memFree, th, last, mem>>
  /\ UNCHANGED <<result, resultLog, sys, mtx>>

\* the CPU cache evicts the line of address p, writing it back if dirty
CacheEvict(p) ==
  /\ cache[p].present
  /\ mem' = IF cache[p].dirty THEN [mem EXCEPT ![p] = cache[p].val] ELSE mem
  /\ cache' = [cache EXCEPT ![p] = NoLine]
  /\ UNCHANGED <<buf, view, alloc, maps, memFree, th, last>>
  /\ UNCHANGED <<result, resultLog, sys, mtx>>

----------------------------------------------------------------------------

(* Result<T>: operator bool, Code, Message *)

\* variant: Message() keeps the factory after it has made the message
ErrorDetail_Message_KeepsFactory(e) ==
  IF e.message = "" /\ e.message_factory.callable
  THEN [error |-> [e EXCEPT !.message = e.message_factory.text],
        ret |-> e.message_factory.text, invoked |-> 1]
  ELSE [error |-> e, ret |-> e.message, invoked |-> 0]

\* ErrorDetail::Message: the detail afterwards, the string returned and the
\* number of factory invocations
ErrorDetail_Message(e) ==
  IF e.message = "" /\ e.message_factory.callable
  THEN [error |-> [e EXCEPT !.message = e.message_factory.text,
                            !.message_factory = NoFactory],
        ret |-> e.message_factory.text, invoked |-> 1]
  ELSE [error |-> e, ret |-> e.message, invoked |-> 0]

Code(r) == IF r.ok THEN "kSuccess" ELSE r.error.code

Message(r) ==
  IF r.ok THEN [error |-> r.error, ret |-> "", invoked |-> 0]
  ELSE ErrorDetail_Message(r.error)

CmmUnchanged ==
  UNCHANGED <<buf, view, alloc, maps, memFree, th, last, mem, cache, sys, mtx>>

\* if (r) ...
Result_bool ==
  /\ resultLog' = [resultLog EXCEPT !.op = "bool", !.truthy = result.ok]
  /\ UNCHANGED result
  /\ CmmUnchanged

\* r.Code()
Result_Code ==
  /\ resultLog' = [resultLog EXCEPT !.op = "Code", !.codeRet = Code(result)]
  /\ UNCHANGED result
  /\ CmmUnchanged

\* r.Message()
Result_Message ==
  /\ resultLog.messages < MaxMessageCalls
  /\ LET m == Message(result) IN
       /\ result' = [result EXCEPT !.error = m.error]
       /\ resultLog' = [resultLog EXCEPT
            !.op = "Message", !.msgRet = m.ret,
            !.first = IF resultLog.messages = 0 THEN m.ret ELSE @,
            !.messages = @ + 1, !.invoked = @ + m.invoked]
  /\ CmmUnchanged

\* a Result as one of its constructors leaves it
InitResult ==
  /\ buf = [b \in Buffers |-> [live |-> (b = 1), alloc |-> 0]]
  /\ view = [v \in Views |-> NoView]
  /\ alloc = [a \in Allocs |-> NoAllocation]
  /\ maps = [x \in Addrs |-> NoMap]
  /\ memFree = [a \in Allocs |-> 0]
  /\ th = [t \in Threads |-> ThIdle]
  /\ last = NoCall
  /\ mem = [p \in PhysAddrs |-> 0]
  /\ cache = [p \in PhysAddrs |-> NoLine]
  /\ \/ /\ result = Result_Ok
        /\ resultLog = NoLog
     \/ \E code \in ErrorCode, factory \in Factories :
          /\ result = Result_Error(code, factory)
          /\ resultLog = [NoLog EXCEPT !.ctor = "Error", !.code = code,
                                       !.factory = factory]
  /\ sys = NoSystems
  /\ mtx = NoLocks

NextResult == Result_bool \/ Result_Code \/ Result_Message

SpecResult == InitResult /\ [][NextResult]_vars

----------------------------------------------------------------------------

(* System: construction, destruction, move construction, move assignment *)

SysUnchanged ==
  UNCHANGED <<buf, view, alloc, maps, memFree, th, last, mem, cache, result,
              resultLog, mtx>>

\* System::Ok
Ok(s) == sys.obj[s].ok

\* System::System(): ok_ is whether AX_SYS_Init returned 0
System_ctor(s) ==
  /\ ~sys.obj[s].live
  /\ \E ret \in {0, -1} :
       /\ ret = 0 => sys.init < MaxInits
       /\ sys' = [sys EXCEPT
            !.obj[s] = [live |-> TRUE, ok |-> (ret = 0), moved |-> FALSE],
            !.init = IF ret = 0 THEN @ + 1 ELSE @]
  /\ SysUnchanged

\* System::~System(): AX_SYS_Deinit if ok_
System_dtor(s) ==
  /\ sys.obj[s].live
  /\ sys' = [sys EXCEPT !.obj[s] = NoSystem,
                        !.deinit = IF Ok(s) THEN @ + 1 ELSE @]
  /\ SysUnchanged

\* variant: the move constructor leaves other.ok_ as it was
System_move_ctor_KeepsOther(s, other) ==
  /\ ~sys.obj[s].live
  /\ sys.obj[other].live
  /\ sys' = [sys EXCEPT
       !.obj[s] = [live |-> TRUE, ok |-> Ok(other), moved |-> FALSE],
       !.obj[other].moved = TRUE]
  /\ SysUnchanged

\* System::System(System&& other): takes other.ok_ and clears it
System_move_ctor(s, other) ==
  /\ ~sys.obj[s].live
  /\ sys.obj[other].live
  /\ sys' = [sys EXCEPT
       !.obj[s] = [live |-> TRUE, ok |-> Ok(other), moved |-> FALSE],
       !.obj[other].ok = FALSE,
       !.obj[other].moved = TRUE]
  /\ SysUnchanged

\* System::operator=(System&& other): nothing on self-assignment; otherwise
\* AX_SYS_Deinit if ok_, then takes other.ok_ and clears it
System_move_assign(s, other) ==
  /\ sys.obj[s].live
  /\ sys.obj[other].live
  /\ IF s = other THEN UNCHANGED sys
     ELSE sys' = [sys EXCEPT
            !.deinit = IF Ok(s) THEN @ + 1 ELSE @,
            !.obj[s].ok = Ok(other),
            !.obj[s].moved = FALSE,
            !.obj[other].ok = FALSE,
            !.obj[other].moved = TRUE]
  /\ SysUnchanged

NextSystem ==
  \/ \E s \in Systems : System_ctor(s)
  \/ \E s \in Systems : System_dtor(s)
  \/ \E s, other \in Systems : System_move_ctor(s, other)
  \/ \E s, other \in Systems : System_move_assign(s, other)

SpecSystem == Init /\ [][NextSystem]_vars

----------------------------------------------------------------------------

\* the calls threads T make with arguments from the sets of record A, and the
\* steps of the calls in progress
Calls(T, A) ==
  \/ \E t \in T : CmmBuffer_ctor(t)
  \/ \E t \in T, b \in Buffers : CmmBuffer_dtor(t, b)
  \/ \E t \in T, b \in Buffers, size \in A.allocSize, mode \in A.allocMode,
        a \in A.allocs :
       CmmBuffer_Allocate(t, b, size, mode, a)
  \/ \E t \in T : Allocate_MapView(t)
  \/ \E t \in T, b \in Buffers : CmmBuffer_Free(t, b)
  \/ \E t \in T, b \in Buffers, phys \in A.phys, size \in A.extSize,
        a \in A.allocs :
       CmmBuffer_AttachExternal(t, b, phys, size, a)
  \/ \E t \in T, b \in Buffers : CmmBuffer_DetachExternal(t, b)
  \/ \E t \in T, b \in Buffers, off \in A.offset, size \in A.size,
        mode \in A.mode, fast \in A.fast :
       CmmBuffer_MapView(t, b, off, size, mode, fast)
  \/ \E t \in T : MapView_Mmap(t)
  \/ \E t \in T : MapView_Register(t)
  \/ \E t \in T, v \in Views, off \in A.offset, size \in A.size,
        mode \in A.mode, fast \in A.fast :
       CmmView_MapView(t, v, off, size, mode, fast)
  \/ \E t \in T, v \in Views : Reset_Unmap(t, v)
  \/ \E t \in T : Reset_Erase(t)
  \/ \E t \in T : Reset_Delete(t)
  \/ \E t \in T, v \in Views : CmmView_MakeBuffer(t, v)

\* one thread; Allocate with every size and cache mode
SeqArgs ==
  [allocs |-> Allocs, allocSize |-> AllocSizeArgs, allocMode |-> CacheMode,
   phys |-> {1}, extSize |-> {1, AX_U32_MAX + 1},
   offset |-> {0}, size |-> {1, AX_U32_MAX + 1}, mode |-> {"kNonCached"},
   fast |-> {FALSE}]

Next == Calls({1}, SeqArgs)

Spec == Init /\ [][Next]_vars

\* every thread; one size and one cache mode
MTArgs ==
  [allocs |-> 1..MaxAllocsMT, allocSize |-> {MaxSize}, allocMode |-> {"kNonCached"},
   phys |-> {1}, extSize |-> {MaxSize},
   offset |-> {0}, size |-> {MaxSize, AX_U32_MAX + 1}, mode |-> {"kNonCached"},
   fast |-> {FALSE}]

NextMT == Calls(Threads, MTArgs)

SpecMT == Init /\ [][NextMT]_vars

\* two threads and one Allocation; MapView and MapViewFast of the same range
\* from Buffers and Views, and Reset
MTFastArgs ==
  [allocs |-> 1..MaxAllocsMT, allocSize |-> {MaxSize}, allocMode |-> {"kNonCached"},
   phys |-> {1}, extSize |-> {MaxSize},
   offset |-> {0}, size |-> {MaxSize}, mode |-> {"kNonCached"},
   fast |-> BOOLEAN]

NextMTFast == Calls(Threads, MTFastArgs)

SpecMTFast == Init /\ [][NextMTFast]_vars

\* one thread, two Allocations; Views are mapped, reset and move-assigned
MoveArgs ==
  [allocs |-> Allocs, allocSize |-> {MaxSize}, allocMode |-> {"kNonCached"},
   phys |-> {1}, extSize |-> {MaxSize},
   offset |-> {0}, size |-> {MaxSize}, mode |-> {"kNonCached"},
   fast |-> {FALSE}]

MoveCalls(T) ==
  \/ \E t \in T, v \in Views, other \in Views : CmmView_move_assign(t, v, other)
  \/ \E t \in T : MoveAssign_Take(t)

NextMove == Calls({1}, MoveArgs) \/ MoveCalls({1})

SpecMove == Init /\ [][NextMove]_vars

\* two threads entering and leaving the lifecycle of the Buffers: Allocate,
\* AttachExternal, Free and DetachExternal with two Allocations to take
EnterArgs ==
  [allocs |-> Allocs, allocSize |-> {MaxSize, AX_U32_MAX + 1},
   allocMode |-> {"kNonCached"}, phys |-> {1}, extSize |-> {MaxSize}]

EnterCalls(T, A) ==
  \/ \E t \in T, b \in Buffers, size \in A.allocSize, mode \in A.allocMode,
        a \in A.allocs :
       CmmBuffer_Allocate(t, b, size, mode, a)
  \/ \E t \in T : Allocate_MapView(t)
  \/ \E t \in T : MapView_Mmap(t)
  \/ \E t \in T : MapView_Register(t)
  \/ \E t \in T, b \in Buffers, phys \in A.phys, size \in A.extSize,
        a \in A.allocs :
       CmmBuffer_AttachExternal(t, b, phys, size, a)
  \/ \E t \in T, b \in Buffers : CmmBuffer_Free(t, b)
  \/ \E t \in T, b \in Buffers : CmmBuffer_DetachExternal(t, b)
  \/ \E t \in T, v \in Views : Reset_Unmap(t, v)
  \/ \E t \in T : Reset_Erase(t)
  \/ \E t \in T : Reset_Delete(t)

NextEnter == EnterCalls(Threads, EnterArgs)

SpecEnter == Init /\ [][NextEnter]_vars

\* one thread and one Allocation; MapView of Buffers and of Views with
\* offsets and sizes over the size_t range, in a cache mode other than the
\* Allocation's
MapArgs ==
  [allocs |-> {1}, allocSize |-> {MaxSize}, allocMode |-> {"kNonCached"},
   phys |-> {1}, extSize |-> {MaxSize},
   offset |-> {0, 1, SIZE_MAX}, size |-> {1, MaxSize}, mode |-> {"kCached"},
   fast |-> {FALSE}]

NextMap == Calls({1}, MapArgs)

SpecMap == Init /\ [][NextMap]_vars

\* one thread and one Allocation; MapView and MapViewFast of the same ranges
FastArgs ==
  [allocs |-> {1}, allocSize |-> {MaxSize}, allocMode |-> {"kNonCached"},
   phys |-> {1}, extSize |-> {MaxSize},
   offset |-> {0, 1}, size |-> {1}, mode |-> {"kCached"},
   fast |-> BOOLEAN]

NextFast == Calls({1}, FastArgs)

SpecFast == Init /\ [][NextFast]_vars

\* the cache calls threads T make with arguments from the sets of record A
CacheCalls(T, A) ==
  \/ \E t \in T, v \in Views, offset \in A.cacheOffset, size \in A.cacheSize :
       CmmView_Flush(t, v, offset, size)
  \/ \E t \in T, v \in Views, offset \in A.cacheOffset, size \in A.cacheSize :
       CmmView_Invalidate(t, v, offset, size)

\* one thread and one Allocation; Flush and Invalidate of whole Views and of
\* sub-views
CacheArgs ==
  [allocs |-> {1}, allocSize |-> {MaxSize}, allocMode |-> {"kCached"},
   phys |-> {1}, extSize |-> {MaxSize},
   offset |-> {1}, size |-> {1}, mode |-> {"kCached"}, fast |-> {FALSE},
   cacheOffset |-> 0..MaxSize, cacheSize |-> {0, 1, SIZE_MAX}]

NextCache == Calls({1}, CacheArgs) \/ CacheCalls({1}, CacheArgs)

SpecCache == Init /\ [][NextCache]_vars

\* one thread and one Allocation; Flush and Invalidate of a View of the
\* largest size a mapping can have (AX_U32_MAX), with sizes up to SIZE_MAX
ChunkPhys == 3
ChunkArgs ==
  [allocs |-> {1}, allocSize |-> {MaxSize}, allocMode |-> {"kCached"},
   phys |-> {ChunkPhys}, extSize |-> {AX_U32_MAX + 1},
   offset |-> {1}, size |-> {AX_U32_MAX}, mode |-> {"kCached"}, fast |-> {FALSE},
   cacheOffset |-> {0, 2}, cacheSize |-> {1, SIZE_MAX - 1, SIZE_MAX}]

NextChunk == Calls({1}, ChunkArgs) \/ CacheCalls({1}, ChunkArgs)

SpecChunk == Init /\ [][NextChunk]_vars

\* the values of a byte
Bytes == {0, 1}

\* the stores and loads threads T make through the Views, and the evictions
\* of the CPU cache
MemorySteps(T) ==
  \/ \E t \in T, v \in Views, i \in 0..(MaxSize - 1), val \in Bytes :
       CmmView_Store(t, v, i, val)
  \/ \E t \in T, v \in Views, i \in 0..(MaxSize - 1) : CmmView_Load(t, v, i)
  \/ \E p \in PhysAddrs : CacheEvict(p)

\* the state after Allocate(MaxSize, kNonCached) and MapView(0, MaxSize,
\* kCached) on the Buffer: a non-cached base View (View 1) and a cached alias
\* of the whole block (View 2)
InitCoherent ==
  /\ buf = [b \in Buffers |-> [live |-> (b = 1), alloc |-> IF b = 1 THEN 1 ELSE 0]]
  /\ view = [v \in Views |->
       [impl |-> TRUE, alloc |-> 1, offset |-> 0, data |-> v, size |-> MaxSize,
        mode |-> IF v = 1 THEN "kNonCached" ELSE "kCached"]]
  /\ alloc = [a \in Allocs |->
       IF a = 1
       THEN [st |-> "live", phy |-> BlockPhys(1), size |-> MaxSize,
             mode |-> "kNonCached", owned |-> TRUE, deleter |-> "Allocate",
             views |-> <<ViewEntry(1, MaxSize, 0, "kNonCached"),
                         ViewEntry(2, MaxSize, 0, "kCached")>>,
             refs |-> 3]
       ELSE NoAllocation]
  /\ maps = [x \in Addrs |->
       [n |-> 1,
        key |-> MapKey(BlockPhys(1), MaxSize,
                       IF x = 1 THEN "kNonCached" ELSE "kCached", FALSE)]]
  /\ memFree = [a \in Allocs |-> 0]
  /\ th = [t \in Threads |-> ThIdle]
  /\ last = [NoCall EXCEPT !.call = "MapView", !.obj = 1, !.code = "kSuccess"]
  /\ mem = [p \in PhysAddrs |-> 0]
  /\ cache = [p \in PhysAddrs |-> NoLine]
  /\ result = Result_Ok
  /\ resultLog = NoLog
  /\ sys = NoSystems
  /\ mtx = NoLocks

\* one thread stores and loads through both Views and calls Flush and
\* Invalidate on sub-ranges of them
CoherentArgs ==
  [cacheOffset |-> {0, 1}, cacheSize |-> {1, MaxSize, SIZE_MAX}]

NextCoherent == CacheCalls({1}, CoherentArgs) \/ MemorySteps({1})

SpecCoherent == InitCoherent /\ [][NextCoherent]_vars

-----------------------------------------------------------------------------
(* Locking: one Buffer, the Allocation it holds and the Views of each thread,
   followed from one std::lock_guard to the next.  A step is what a thread
   does between two mutex operations; a critical section is one step that
   starts with the mutex held and ends with its release. *)

LockUnchanged ==
  UNCHANGED <<buf, view, alloc, maps, memFree, th, last, mem, cache, result,
              resultLog, sys>>

\* the functions that copy impl_->alloc under alloc_mtx, and those that map
CaptureFns == {"MapView", "MapViewFast", "Dump", "Verify"}
MapFns == {"MapView", "MapViewFast", "View.MapView"}

\* ~lock_guard
Unlock(L, m) == [L EXCEPT !.owner[m] = 0]

\* k shared_ptr<Allocation> are destroyed; the last one runs the deleter
DropRefs(L, k) ==
  IF k = 0 THEN L
  ELSE IF L.a.refs = k THEN [L EXCEPT !.a.live = FALSE, !.a.refs = 0]
  ELSE [L EXCEPT !.a.refs = @ - k]

\* thread t returns from its call
Ret(L, t) == [L EXCEPT !.at[t] = NotInCall]

\* thread t reads or writes a.views
Access(L, t, op) ==
  [L EXCEPT !.access = [by |-> t, op |-> op, locked |-> L.owner["mtx"] = t,
                        n |-> 0]]

\* another thread is inside a critical section that writes a.views
Racing(t) ==
  \E u \in Threads \ {t} :
    mtx.at[u].pc = "mtx" /\ mtx.at[u].fn \in MapFns \cup {"Reset"}

\* a call begins.  Reset and CmmView::MapView act on a View of the calling
\* thread; Reset takes the View's Impl (impl_ = nullptr) and unmaps it before
\* it asks for the Allocation's mutex; every Buffer call starts at the
\* lock_guard on alloc_mtx.
Call(t, op) ==
  /\ mtx.at[t] = NotInCall
  /\ op \in LockOps
  /\ LET c == [NotInCall EXCEPT !.op = op, !.fn = op]
     IN IF op = "Reset" THEN
          IF mtx.nviews[t] = 0
          THEN mtx' = mtx
          ELSE mtx' = [mtx EXCEPT !.nviews[t] = @ - 1,
                         !.at[t] = [c EXCEPT !.pc = "lock_mtx", !.impl = TRUE,
                                      !.code = "void"]]
        ELSE IF op = "View.MapView" THEN
          IF mtx.nviews[t] = 0
          THEN mtx' = mtx
          ELSE mtx' = [mtx EXCEPT !.at[t] = [c EXCEPT !.pc = "mmap"]]
        ELSE mtx' = [mtx EXCEPT !.at[t] = [c EXCEPT !.pc = "lock_alloc_mtx"]]
  /\ LockUnchanged

\* std::lock_guard<std::mutex> lk(m): the thread waits until m is free
lock_guard(t) ==
  /\ mtx.at[t].pc \in {"lock_alloc_mtx", "lock_mtx"}
  /\ LET m == IF mtx.at[t].pc = "lock_alloc_mtx" THEN "alloc_mtx" ELSE "mtx"
     IN /\ mtx.owner[m] = 0
        /\ mtx' = [mtx EXCEPT !.owner[m] = t, !.at[t].pc = m]
  /\ LockUnchanged

\* variant: Allocate calls MapView inside the scope of its lock_guard
Allocate_alloc_mtx_MapsInside(t) ==
  /\ mtx.at[t].fn = "Allocate" /\ mtx.at[t].pc = "alloc_mtx"
  /\ IF mtx.held THEN
       mtx' = Ret(Unlock(mtx, "alloc_mtx"), t)
     ELSE
       \E code \in {"kMemoryTooLarge", "kAllocationFailed", "bad_alloc",
                    "kSuccess"} :
         IF code # "kSuccess" THEN
           mtx' = Ret(Unlock(mtx, "alloc_mtx"), t)
         ELSE
           mtx' = [mtx EXCEPT
                     !.held = TRUE,
                     !.a = [live |-> TRUE, owned |-> TRUE, refs |-> 1,
                            views |-> 0],
                     !.at[t].fn = "MapView",
                     !.at[t].pc = "lock_alloc_mtx"]
  /\ LockUnchanged

\* Allocate with alloc_mtx held: the checks, the platform allocation and the
\* assignment to impl_->alloc; the scope ends, then MapView(0, size, mode)
Allocate_alloc_mtx(t) ==
  /\ mtx.at[t].fn = "Allocate" /\ mtx.at[t].pc = "alloc_mtx"
  /\ IF mtx.held THEN
       mtx' = Ret(Unlock(mtx, "alloc_mtx"), t)
     ELSE
       \E code \in {"kMemoryTooLarge", "kAllocationFailed", "bad_alloc",
                    "kSuccess"} :
         IF code # "kSuccess" THEN
           mtx' = Ret(Unlock(mtx, "alloc_mtx"), t)
         ELSE
           mtx' = [Unlock(mtx, "alloc_mtx") EXCEPT
                     !.held = TRUE,
                     !.a = [live |-> TRUE, owned |-> TRUE, refs |-> 1,
                            views |-> 0],
                     !.at[t].fn = "MapView",
                     !.at[t].pc = "lock_alloc_mtx"]
  /\ LockUnchanged

\* AttachExternal with alloc_mtx held
AttachExternal_alloc_mtx(t) ==
  /\ mtx.at[t].fn = "AttachExternal" /\ mtx.at[t].pc = "alloc_mtx"
  /\ IF mtx.held THEN
       mtx' = Ret(Unlock(mtx, "alloc_mtx"), t)
     ELSE
       mtx' = Ret([Unlock(mtx, "alloc_mtx") EXCEPT
                     !.held = TRUE,
                     !.a = [live |-> TRUE, owned |-> FALSE, refs |-> 1,
                            views |-> 0]], t)
  /\ LockUnchanged

\* Free and DetachExternal with alloc_mtx held; impl_->alloc.reset() runs the
\* deleter before the lock_guard is destroyed
Free_alloc_mtx(t) ==
  /\ mtx.at[t].fn \in {"Free", "DetachExternal"} /\ mtx.at[t].pc = "alloc_mtx"
  /\ LET U == Unlock(mtx, "alloc_mtx")
         free == mtx.at[t].fn = "Free"
     IN IF ~mtx.held THEN mtx' = Ret(U, t)
        ELSE IF free /\ ~mtx.a.owned THEN mtx' = Ret(U, t)
        ELSE IF ~free /\ mtx.a.owned THEN mtx' = Ret(U, t)
        ELSE IF mtx.a.refs > 1 THEN mtx' = Ret(U, t)
        ELSE mtx' = Ret(DropRefs([U EXCEPT !.held = FALSE], 1), t)
  /\ LockUnchanged

\* alloc_copy = impl_->alloc with alloc_mtx held, then the null check
Capture_alloc_mtx(t) ==
  /\ mtx.at[t].fn \in CaptureFns /\ mtx.at[t].pc = "alloc_mtx"
  /\ LET U == Unlock(mtx, "alloc_mtx")
         fn == mtx.at[t].fn
     IN IF ~mtx.held THEN
          mtx' = Ret(U, t)
        ELSE
          mtx' = [U EXCEPT !.a.refs = @ + 1,
                           !.at[t].copy = TRUE,
                           !.at[t].pc = CASE fn = "Dump" -> "size"
                                          [] fn = "Verify" -> "query"
                                          [] OTHER -> "mmap"]
  /\ LockUnchanged

\* the range check, DoMmap or DoMmapFast, and the new Impl with its own
\* shared_ptr; no mutex is held
MapView_DoMmap(t) ==
  /\ mtx.at[t].fn \in MapFns /\ mtx.at[t].pc = "mmap"
  /\ \E code \in {"kOutOfRange", "kMapFailed", "bad_alloc", "kSuccess"} :
       IF code # "kSuccess" THEN
         mtx' = [mtx EXCEPT !.at[t].pc = "unwind", !.at[t].code = code]
       ELSE
         /\ mtx.a.views + Cardinality({u \in Threads :
               mtx.at[u].impl /\ mtx.at[u].fn \in MapFns}) < MaxViews
         /\ mtx' = [mtx EXCEPT !.a.refs = @ + 1, !.at[t].impl = TRUE,
                               !.at[t].pc = "lock_mtx"]
  /\ LockUnchanged

\* a.views.push_back(e) with a.mtx held; push_back may throw
MapView_mtx(t) ==
  /\ mtx.at[t].fn \in MapFns /\ mtx.at[t].pc = "mtx"
  /\ \E ok \in BOOLEAN :
       mtx' = [Unlock(Access(mtx, t, "push"), "mtx") EXCEPT
                 !.a.views = IF ok THEN @ + 1 ELSE @,
                 !.at[t].code = IF ok THEN "kSuccess" ELSE "bad_alloc",
                 !.at[t].pc = "unwind"]
  /\ LockUnchanged

\* Reset's search and views.erase(it) with alloc->mtx held
Reset_mtx(t) ==
  /\ mtx.at[t].fn = "Reset" /\ mtx.at[t].pc = "mtx"
  /\ mtx' = [Unlock(Access(mtx, t, "erase"), "mtx") EXCEPT
               !.a.views = @ - 1,
               !.at[t].pc = "unwind"]
  /\ LockUnchanged

\* Dump's first printf: a.views.size() is read before any lock_guard on a.mtx;
\* when another thread is writing the vector the read finds any size
Dump_size(t) ==
  /\ mtx.at[t].fn = "Dump" /\ mtx.at[t].pc = "size"
  /\ \E n \in (IF Racing(t) THEN 0..MaxViews ELSE {mtx.a.views}) :
       mtx' = [Access(mtx, t, "size") EXCEPT !.access.n = n,
                                             !.at[t].pc = "lock_mtx"]
  /\ LockUnchanged

\* Verify's platform queries, with no mutex held; each may end the call
Verify_query(t) ==
  /\ mtx.at[t].fn = "Verify" /\ mtx.at[t].pc = "query"
  /\ \E ok \in BOOLEAN :
       mtx' = IF ok THEN [mtx EXCEPT !.at[t].pc = "lock_mtx"]
              ELSE [mtx EXCEPT !.at[t].pc = "unwind", !.at[t].code = "false"]
  /\ LockUnchanged

\* the loop over a.views of Dump and Verify, with a.mtx held
Iterate_mtx(t) ==
  /\ mtx.at[t].fn \in {"Dump", "Verify"} /\ mtx.at[t].pc = "mtx"
  /\ \E code \in (IF mtx.at[t].fn = "Dump" THEN {"void"}
                  ELSE {"true", "false"}) :
       mtx' = [Unlock(Access(mtx, t, "iterate"), "mtx") EXCEPT
                 !.at[t].code = code, !.at[t].pc = "unwind"]
  /\ LockUnchanged

\* the end of a function, after its last lock_guard is gone: the Impl is
\* deleted unless it went into the returned View, alloc_copy is destroyed
Unwind(t) ==
  /\ mtx.at[t].pc = "unwind"
  /\ LET c == mtx.at[t]
         keep == c.impl /\ c.code = "kSuccess"
         k == (IF c.copy THEN 1 ELSE 0) + (IF c.impl /\ ~keep THEN 1 ELSE 0)
         V == IF keep THEN [mtx EXCEPT !.nviews[t] = @ + 1] ELSE mtx
     IN mtx' = Ret(DropRefs(V, k), t)
  /\ LockUnchanged

\* what a thread inside a call does next
Step(t) ==
  \/ lock_guard(t)
  \/ Allocate_alloc_mtx(t)
  \/ AttachExternal_alloc_mtx(t)
  \/ Free_alloc_mtx(t)
  \/ Capture_alloc_mtx(t)
  \/ MapView_DoMmap(t)
  \/ MapView_mtx(t)
  \/ Reset_mtx(t)
  \/ Dump_size(t)
  \/ Verify_query(t)
  \/ Iterate_mtx(t)
  \/ Unwind(t)

NextLock ==
  \/ \E t \in Threads, op \in LockOps : Call(t, op)
  \/ \E t \in Threads : Step(t)

SpecLock == Init /\ [][NextLock]_vars

\* every platform call returns and a thread that can go on does; a thread
\* that finds a mutex free again and again gets it
SpecLockFair == SpecLock /\ \A t \in Threads : SF_vars(Step(t))

----------------------------------------------------------------------------
(* Vocabulary of the properties *)

\* the holders of a reference to allocation a: Buffers, Views, and the
\* shared_ptr copies that calls in progress hold in their locals
BufHolders(a) == {b \in Buffers : buf[b].live /\ buf[b].alloc = a}
ViewHolders(a) == {v \in Views : view[v].impl /\ view[v].alloc = a}
ThRefs(t, a) ==
  IF th[t].a # a THEN 0
  ELSE CASE th[t].pc = "map_mmap" -> 1
         [] th[t].pc = "map_register" -> IF th[t].copy THEN 2 ELSE 1
         [] th[t].pc \in {"reset_erase", "reset_delete"} -> 1
         [] OTHER -> 0
HolderCount(a) ==
  Cardinality(BufHolders(a)) + Cardinality(ViewHolders(a))
    + Cardinality({p \in Threads \X {1, 2} : p[2] <= ThRefs(p[1], a)})

\* the lifecycle state of Buffer b after this step
BufStateNext(b) ==
  IF buf'[b].alloc = 0 THEN "Idle"
  ELSE IF alloc'[buf'[b].alloc].owned THEN "Owned" ELSE "Attached"

\* this step is the return of a call `call`; its object and its Result
Returns(call) == last' # last /\ last'.call = call
RetObj == last'.obj
RetCode == last'.code

\* the thread whose call in progress returns in this step, 0 if the call that
\* returns took a single step
Returning == IF \E t \in Threads : th[t].pc # "idle" /\ th'[t].pc = "idle"
             THEN CHOOSE t \in Threads : th[t].pc # "idle" /\ th'[t].pc = "idle"
             ELSE 0

\* the View object that receives a View in this step
NewViews == {v \in Views : ~view[v].impl /\ view'[v].impl}

\* every mapping the platform holds belongs to a live View or to a mapping
\* call that has not yet returned its View
MappingsOwned ==
  \A x \in Addrs :
    maps[x].n = Cardinality({v \in LiveViews : view[v].data = x})
                + Cardinality({t \in Threads : th[t].pc = "map_register" /\ th[t].addr = x})

----------------------------------------------------------------------------
(* Claims *)

\* C1: for every owned Allocation, AX_SYS_MemFree is called for its block
\* exactly once, at the step where the last holder releases its reference:
\* never while the Allocation is live, never a second time.
C1_FreedExactlyOnce ==
  [][\A a \in Allocs :
       /\ memFree'[a] <= 1
       /\ alloc[a].st = "live" => memFree[a] = 0
       /\ memFree'[a] # memFree[a] =>
            /\ alloc[a].st = "live" /\ alloc[a].owned
            /\ HolderCount(a) = 1
            /\ alloc'[a].st = "dead"
       /\ (alloc[a].st = "live" /\ alloc[a].owned /\ alloc'[a].st = "dead") =>
            memFree'[a] = 1]_vars

\* C2: a View may outlive its Buffer: every live View has a valid mapping and
\* an Allocation that is live and not freed; once AX_SYS_MemFree has been
\* called for an Allocation no View or call in progress refers to it and every
\* remaining mapping belongs to a live View (each unmap came before the free);
\* the block is freed in the step that drops the last reference.
C2_Safe ==
  /\ \A v \in LiveViews :
       /\ view[v].data # 0 /\ maps[view[v].data].n > 0
       /\ alloc[view[v].alloc].st = "live"
       /\ memFree[view[v].alloc] = 0
  /\ \A a \in Allocs : memFree[a] > 0 =>
       /\ ViewHolders(a) = {}
       /\ \A t \in Threads : ThRefs(t, a) = 0
  /\ MappingsOwned

C3_Original ==
  [][Returns("Free") =>
       LET b == RetObj
           a == buf[b].alloc
       IN /\ (a # 0 /\ ViewHolders(a) # {}) =>
               /\ RetCode = "kReferencesRemain"
               /\ memFree' = memFree /\ alloc' = alloc /\ buf' = buf
          /\ (a # 0 /\ ViewHolders(a) = {}) => RetCode = "kSuccess"]_vars

\* C3 amended: for all Buffers holding an owned Allocation, Free() while a
\* View of it is alive returns ReferencesRemain, frees nothing and leaves the
\* Allocation live and unchanged (so that an in-range MapView still
\* succeeds); Free() succeeds once the Buffer holds the only reference.
C3_FreeWhileViewAlive ==
  [][Returns("Free") =>
       LET b == RetObj
           a == buf[b].alloc
       IN /\ (BufState(b) = "Owned" /\ ViewHolders(a) # {}) =>
               /\ RetCode = "kReferencesRemain"
               /\ memFree' = memFree /\ alloc' = alloc /\ buf' = buf
               /\ alloc'[a].st = "live"
          /\ (BufState(b) = "Owned" /\ HolderCount(a) = 1) => RetCode = "kSuccess"]_vars

C3_Witness ==
  /\ last.call = "Free" /\ last.code = "kReferencesRemain"
  /\ buf[last.obj].alloc # 0
  /\ ViewHolders(buf[last.obj].alloc) # {}
  /\ alloc[buf[last.obj].alloc].st = "live"
  /\ memFree[buf[last.obj].alloc] = 0

\* C4: a Buffer changes lifecycle state only along Idle -> Owned,
\* Idle -> Attached, Owned -> Idle, Attached -> Idle, and a call of Allocate,
\* AttachExternal, Free or DetachExternal that returns an error leaves the
\* Buffer in the state it had when the call began.
C4_StateMachine ==
  [][\A b \in Buffers :
       /\ (buf[b].live /\ buf'[b].live /\ BufStateNext(b) # BufState(b)) =>
            <<BufState(b), BufStateNext(b)>> \in
              {<<"Idle", "Owned">>, <<"Idle", "Attached">>,
               <<"Owned", "Idle">>, <<"Attached", "Idle">>}
       /\ (/\ last' # last /\ RetObj = b
           /\ last'.call \in {"Allocate", "AttachExternal", "Free", "DetachExternal"}
           /\ RetCode \notin {"kSuccess", "bad_alloc"}) =>
            BufStateNext(b) = IF Returning = 0 THEN BufState(b) ELSE th[Returning].pre]_vars

\* C5: Allocate fails only with AlreadyInitialized (Buffer not idle),
\* MemoryTooLarge (size above the AX_U32 limit) or AllocationFailed (platform
\* allocation failed); otherwise it succeeds, the Buffer is Owned and the
\* returned base View has offset 0 and the requested size and cache mode.
C5_AllocateResult ==
  [][(Returns("Allocate") /\ RetCode # "bad_alloc") =>
       /\ RetCode \in {"kSuccess", "kAlreadyInitialized", "kMemoryTooLarge",
                       "kAllocationFailed"}
       /\ RetCode = "kAlreadyInitialized" => BufState(RetObj) # "Idle"
       /\ RetCode = "kSuccess" =>
            /\ BufStateNext(RetObj) = "Owned"
            /\ \E v \in NewViews :
                 /\ view'[v].offset = 0
                 /\ view'[v].size = th[Returning].size
                 /\ view'[v].mode = th[Returning].mode
                 /\ view'[v].alloc = buf'[RetObj].alloc]_vars

\* C6: Allocate and AttachExternal on an Owned or Attached Buffer return
\* AlreadyInitialized; no Allocation is created and none is changed (physical
\* base, size, ownership flag, registry, reference count); no such call gets
\* as far as the platform allocator.
C6_AlreadyInitialized ==
  [][/\ \A t \in Threads :
          (th[t].pc = "idle" /\ th'[t].pc = "alloc_map") =>
             (BufState(th'[t].b) = "Idle" /\ th'[t].pre = "Idle")
     /\ (/\ last' # last /\ last'.call \in {"Allocate", "AttachExternal"}
         /\ Returning = 0
         /\ BufState(RetObj) # "Idle") =>
          /\ RetCode = "kAlreadyInitialized"
          /\ alloc' = alloc /\ buf' = buf /\ memFree' = memFree]_vars

C6_Witness ==
  /\ last.call \in {"Allocate", "AttachExternal"}
  /\ last.code = "kAlreadyInitialized"
  /\ BufState(last.obj) # "Idle"
  /\ alloc[buf[last.obj].alloc].st = "live"

\* C7: Free() returns NoAllocation on an idle Buffer, NotOwned on an Attached
\* one, ReferencesRemain on an Owned one whose Allocation another holder
\* references; it succeeds exactly when the Buffer is Owned and holds the only
\* reference, and a failing Free() changes no Allocation and no Buffer.
C7_FreeResult ==
  [][Returns("Free") =>
       LET b == RetObj
           a == buf[b].alloc
       IN /\ RetCode = CASE BufState(b) = "Idle" -> "kNoAllocation"
                         [] BufState(b) = "Attached" -> "kNotOwned"
                         [] BufState(b) = "Owned" /\ HolderCount(a) > 1 -> "kReferencesRemain"
                         [] OTHER -> "kSuccess"
          /\ RetCode # "kSuccess" =>
               alloc' = alloc /\ buf' = buf /\ memFree' = memFree]_vars

C7_Witness ==
  /\ last.call = "Free" /\ last.code = "kNotOwned"
  /\ BufState(last.obj) = "Attached"

\* C8: after a successful Free() the Buffer is idle and AX_SYS_MemFree has
\* been called once for the block; Free() on an idle Buffer returns
\* NoAllocation and calls no AX_SYS_MemFree; no Free() brings the number of
\* AX_SYS_MemFree calls of a block above one.
C8_NoDoubleFree ==
  [][Returns("Free") =>
       LET b == RetObj
           a == buf[b].alloc
       IN /\ RetCode = "kSuccess" =>
               /\ BufStateNext(b) = "Idle"
               /\ memFree[a] = 0 /\ memFree'[a] = 1
               /\ alloc'[a].st = "dead"
          /\ BufState(b) = "Idle" =>
               /\ RetCode = "kNoAllocation"
               /\ memFree' = memFree /\ buf' = buf
          /\ \A x \in Allocs :
               memFree'[x] # memFree[x] => (x = a /\ RetCode = "kSuccess")]_vars

C8_Witness ==
  /\ last.call = "Free" /\ last.code = "kNoAllocation"
  /\ BufState(last.obj) = "Idle"
  /\ \E a \in Allocs : memFree[a] = 1 /\ alloc[a].st = "dead"

\* C9: no step calls AX_SYS_MemFree for an externally attached Allocation,
\* whichever holder drops its last reference.
C9_AttachedNeverFreed ==
  [][\A a \in Allocs :
       (alloc[a].st = "live" /\ ~alloc[a].owned) =>
          (memFree[a] = 0 /\ memFree'[a] = 0)]_vars

\* a Reset is about to drop the last reference to an attached Allocation
\* whose Buffer is gone
C9_Witness ==
  \E t \in Threads :
    /\ th[t].pc = "reset_delete"
    /\ th[t].a # 0
    /\ ~alloc[th[t].a].owned
    /\ alloc[th[t].a].refs = 1
    /\ BufHolders(th[t].a) = {}

\* C10 as stated: Free() on an Attached Buffer fails with NotOwned,
\* DetachExternal() on an Owned or idle Buffer with NoAllocation;
\* DetachExternal() on an Attached Buffer fails with ReferencesRemain while a
\* View of the range is alive and succeeds once none is; a failing call
\* leaves the Buffer its Allocation.
C10_Original ==
  [][/\ (Returns("Free") /\ BufState(RetObj) = "Attached") =>
          (RetCode = "kNotOwned" /\ buf' = buf /\ alloc' = alloc)
     /\ Returns("DetachExternal") =>
          LET b == RetObj
              a == buf[b].alloc
          IN /\ BufState(b) \in {"Owned", "Idle"} =>
                  (RetCode = "kNoAllocation" /\ buf' = buf /\ alloc' = alloc)
             /\ (BufState(b) = "Attached" /\ ViewHolders(a) # {}) =>
                  (RetCode = "kReferencesRemain" /\ buf' = buf /\ alloc' = alloc)
             /\ (BufState(b) = "Attached" /\ ViewHolders(a) = {}) =>
                  (RetCode = "kSuccess" /\ BufStateNext(b) = "Idle")]_vars

\* C10 amended: as C10, except that DetachExternal() on an Attached Buffer
\* fails with ReferencesRemain while any other holder (a View, another Buffer
\* made by MakeBuffer, a call in progress) references the Allocation, and
\* succeeds once the Buffer holds the only reference.
C10_FreeDetachMix ==
  [][/\ (Returns("Free") /\ BufState(RetObj) = "Attached") =>
          (RetCode = "kNotOwned" /\ buf' = buf /\ alloc' = alloc)
     /\ Returns("DetachExternal") =>
          LET b == RetObj
              a == buf[b].alloc
          IN /\ BufState(b) \in {"Owned", "Idle"} =>
                  (RetCode = "kNoAllocation" /\ buf' = buf /\ alloc' = alloc)
             /\ (BufState(b) = "Attached" /\ HolderCount(a) > 1) =>
                  (RetCode = "kReferencesRemain" /\ buf' = buf /\ alloc' = alloc)
             /\ (BufState(b) = "Attached" /\ HolderCount(a) = 1) =>
                  (RetCode = "kSuccess" /\ BufStateNext(b) = "Idle"
                     /\ memFree' = memFree)]_vars

C10_Witness ==
  /\ last.call = "DetachExternal" /\ last.code = "kReferencesRemain"
  /\ BufState(last.obj) = "Attached"
  /\ ViewHolders(buf[last.obj].alloc) = {}

----------------------------------------------------------------------------
(* Mapping ranges *)

\* thread t is in a mapping call that a program made (not the MapView that
\* ends Allocate)
InMapCall(t) ==
  th[t].call \in {"MapView", "MapViewFast", "View.MapView", "View.MapViewFast"}

\* the bound a mapping call of thread record L checks its range against: the
\* size of the Allocation (Buffer) or of the parent View (View)
RangeLimit(L) == IF L.b # 0 THEN alloc[L.a].size ELSE view[L.v].size

\* the registry of allocation a and the live Views of a as bags of
\* (addr, offset, size, mode)
RegistryBag(a) ==
  LET r == alloc[a].views
      E == {r[i] : i \in 1..Len(r)}
  IN [e \in E |-> Cardinality({i \in 1..Len(r) : r[i] = e})]
ViewBag(a) ==
  LET V == ViewHolders(a)
      ent(v) == ViewEntry(view[v].data, view[v].size, view[v].offset, view[v].mode)
      E == {ent(v) : v \in V}
  IN [e \in E |-> Cardinality({v \in V : ent(v) = e})]

\* no thread is inside a call
Quiescent == \A t \in Threads : th[t].pc = "idle"

\* C11: a MapView / MapViewFast whose offset + size exceeds the size of the
\* Allocation (Buffer) or of the View (View), for all size_t values of offset
\* and size, returns OutOfRange, makes no platform mapping and registers
\* nothing: no such call reaches the platform mapping, and a Buffer call with
\* such arguments returns OutOfRange from its range check.
C11_OutOfRange ==
  [][\A t \in Threads :
       /\ (th[t].pc # "map_register" /\ th'[t].pc = "map_register"
             /\ th'[t].call # "Allocate") =>
            th'[t].arg + th'[t].size <= RangeLimit(th'[t])
       /\ (th[t].pc = "map_mmap" /\ InMapCall(t) /\ th'[t] # th[t]
             /\ th[t].arg + th[t].size > alloc[th[t].a].size) =>
            /\ Returns(th[t].call) /\ RetCode = "kOutOfRange"
            /\ maps' = maps
            /\ alloc'[th[t].a].views = alloc[th[t].a].views]_vars

C13_InRange ==
  /\ \A a \in Allocs : alloc[a].st = "live" =>
       \A i \in 1..Len(alloc[a].views) :
         alloc[a].views[i].offset + alloc[a].views[i].size <= alloc[a].size
  /\ \A v \in LiveViews :
       view[v].offset + view[v].size <= alloc[view[v].alloc].size

----------------------------------------------------------------------------
(* Registry and references *)

\* the reference count of allocation a, 0 once the Allocation is destroyed
Refs(A, a) == IF A[a].st = "dead" THEN 0 ELSE A[a].refs

\* sequence s without its element at position i
Without(s, i) == SubSeq(s, 1, i - 1) \o SubSeq(s, i + 1, Len(s))

\* C15: every successful MapView / MapViewFast (and the mapping of Allocate)
\* appends exactly one entry, that of the View it returns, to the registry of
\* its Allocation; every Reset of a mapped View removes exactly one entry, one
\* with the address of that View, and releases exactly one reference; and
\* whenever no call is in progress the registry of every Allocation equals
\* the multiset of (addr, offset, size, mode) of its live Views, also when
\* fast mappings share an address.
C15_RegistryIsViews ==
  [][/\ \A t \in Threads :
          (th[t].pc = "map_register" /\ th'[t].pc = "idle"
             /\ RetCode = "kSuccess") =>
            /\ Cardinality(NewViews) = 1
            /\ \A v \in NewViews :
                 /\ view'[v].alloc = th[t].a
                 /\ alloc'[th[t].a].views =
                      Append(alloc[th[t].a].views,
                             ViewEntry(view'[v].data, view'[v].size,
                                       view'[v].offset, view'[v].mode))
            /\ \A x \in Allocs \ {th[t].a} : alloc'[x].views = alloc[x].views
     /\ \A t \in Threads :
          (th[t].pc = "reset_erase" /\ th'[t] # th[t]) =>
            /\ \E i \in 1..Len(alloc[th[t].a].views) :
                 /\ alloc[th[t].a].views[i].addr = th[t].addr
                 /\ alloc'[th[t].a].views = Without(alloc[th[t].a].views, i)
            /\ \A x \in Allocs \ {th[t].a} : alloc'[x].views = alloc[x].views
     /\ \A t \in Threads :
          (th[t].pc = "reset_delete" /\ th'[t].pc = "idle" /\ th[t].a # 0) =>
            /\ Refs(alloc', th[t].a) = Refs(alloc, th[t].a) - 1
            /\ \A x \in Allocs \ {th[t].a} : Refs(alloc', x) = Refs(alloc, x)
     /\ Quiescent' =>
          \A a \in Allocs : RegistryBag(a)' = ViewBag(a)']_vars

\* a Reset has removed its entry from the registry while another live View
\* of the same Allocation, a fast mapping, still has the same address
C15_Witness ==
  \E t \in Threads :
    /\ th[t].pc = "reset_delete" /\ th[t].a # 0
    /\ \E v \in LiveViews :
         /\ view[v].alloc = th[t].a /\ view[v].data = th[t].addr
         /\ \E i \in 1..Len(alloc[th[t].a].views) :
              alloc[th[t].a].views[i].addr = th[t].addr

\* C16: the first Reset of a mapped View makes exactly one platform unmap,
\* of the View's address, removes exactly one registry entry and releases
\* exactly one reference, each once, and leaves the View empty; a Reset of an
\* empty View (after a Reset, in the destructor after a Reset, of a
\* default-constructed View) is a single step that makes no platform call and
\* changes neither a registry nor a reference count.
C16_ResetIdempotent ==
  [][/\ \A t \in Threads :
          (th[t].pc = "idle" /\ th'[t].call = "Reset" /\ th'[t].pc # "idle") =>
            LET v == th'[t].v IN
            /\ view[v].impl /\ ~view'[v].impl
            /\ IsMapped(v) =>
                 /\ th'[t].pc = "reset_erase"
                 /\ maps[Data(v)].n > 0
                 /\ AX_SYS_Munmap(maps, Data(v)) = maps'
            /\ alloc' = alloc /\ memFree' = memFree
     /\ \A t \in Threads :
          (th[t].pc = "reset_erase" /\ th'[t] # th[t]) =>
            /\ th'[t].pc = "reset_delete"
            /\ Len(alloc'[th[t].a].views) = Len(alloc[th[t].a].views) - 1
            /\ Refs(alloc', th[t].a) = Refs(alloc, th[t].a)
            /\ maps' = maps
     /\ \A t \in Threads :
          (th[t].pc = "reset_delete" /\ th'[t] # th[t] /\ th[t].a # 0) =>
            /\ Returns("Reset") /\ RetObj = th[t].v
            /\ Refs(alloc', th[t].a) = Refs(alloc, th[t].a) - 1
            /\ Len(alloc'[th[t].a].views) = Len(alloc[th[t].a].views)
            /\ maps' = maps
     /\ Returns("Reset") =>
          /\ ~view'[RetObj].impl
          /\ Returning = 0 =>
               /\ ~view[RetObj].impl
               /\ UNCHANGED <<buf, view, alloc, maps, memFree>>]_vars

\* a second Reset of the same View has returned (the tick of the last call
\* flips when a call repeats with the same result) while other Views are
\* still mapped
C16_Witness ==
  /\ last.call = "Reset" /\ last.tick = 1
  /\ Quiescent
  /\ ~view[last.obj].impl
  /\ \E v \in LiveViews : IsMapped(v) /\ alloc[view[v].alloc].views # <<>>

\* C18: MakeBuffer of a live View returns a new Buffer on the View's
\* Allocation (Phys() and Size() of the Allocation, owned or attached as it
\* is), makes no platform mapping, adds no registry entry and adds exactly one
\* reference; MakeBuffer of an empty View returns NoAllocation and changes
\* nothing; and Free of an owned Allocation, DetachExternal of an attached
\* one, succeeds for a Buffer that is the only holder left.
C18_MakeBuffer ==
  [][/\ \A v \in Views :
          (Returns("MakeBuffer") /\ RetObj = v) =>
            IF view[v].impl /\ view[v].alloc # 0 THEN
              LET a == view[v].alloc IN
              /\ RetCode = "kSuccess"
              /\ \E nb \in Buffers :
                   /\ ~buf[nb].live /\ buf'[nb].live /\ buf'[nb].alloc = a
                   /\ \A b \in Buffers \ {nb} : buf'[b] = buf[b]
                   /\ BufferPhys(nb)' = alloc[a].phy
                   /\ BufferSize(nb)' = alloc[a].size
                   /\ BufStateNext(nb) =
                        (IF alloc[a].owned THEN "Owned" ELSE "Attached")
              /\ maps' = maps
              /\ \A x \in Allocs :
                   /\ alloc'[x].views = alloc[x].views
                   /\ Refs(alloc', x) = Refs(alloc, x) + (IF x = a THEN 1 ELSE 0)
              /\ UNCHANGED <<view, memFree>>
            ELSE
              /\ RetCode = "kNoAllocation"
              /\ UNCHANGED <<buf, view, alloc, maps, memFree>>
     /\ \A b \in Buffers :
          (/\ Returns("Free") \/ Returns("DetachExternal")
           /\ RetObj = b /\ buf[b].live /\ buf[b].alloc # 0
           /\ HolderCount(buf[b].alloc) = 1
           /\ Returns("Free") <=> alloc[buf[b].alloc].owned) =>
            /\ RetCode = "kSuccess"
            /\ BufStateNext(b) = "Idle"]_vars

\* MakeBuffer of a mapped View has returned a second Buffer on the View's
\* Allocation
C18_Witness ==
  /\ last.call = "MakeBuffer" /\ last.code = "kSuccess"
  /\ IsMapped(last.obj)
  /\ \E b1, b2 \in Buffers :
       /\ b1 # b2 /\ buf[b1].live /\ buf[b2].live
       /\ buf[b1].alloc = view[last.obj].alloc
       /\ buf[b2].alloc = view[last.obj].alloc
       /\ alloc[buf[b1].alloc].refs = 3

----------------------------------------------------------------------------
(* Cache maintenance *)

\* this step is the return of Flush or of Invalidate
ReturnsCacheOp == Returns("Flush") \/ Returns("Invalidate")

\* C17: when Reset returns, the View has Data() null, Size() 0 and converts
\* to false; Flush and Invalidate of a View in that state return
\* NotInitialized and make no platform cache call.
C17_AfterReset ==
  [][\A v \in Views :
       /\ (Returns("Reset") /\ RetObj = v) =>
            (Data(v) = 0 /\ Size(v) = 0 /\ ~IsMapped(v))'
       /\ (ReturnsCacheOp /\ RetObj = v /\ Data(v) = 0 /\ Size(v) = 0
             /\ ~IsMapped(v)) =>
            /\ RetCode = "kNotInitialized"
            /\ last'.io = <<>>]_vars

\* Flush or Invalidate has returned NotInitialized for the View that was
\* mapped first and has been Reset since, while a later View is still mapped
C17_Witness ==
  /\ last.call \in {"Flush", "Invalidate"} /\ last.code = "kNotInitialized"
  /\ last.obj = 1
  /\ ~view[1].impl
  /\ \E v \in LiveViews : v # 1 /\ IsMapped(v)

\* the View has a mapping Flush and Invalidate can work on
Initialized(v) == view[v].impl /\ view[v].alloc # 0 /\ view[v].data # 0

\* the failure code of the platform call of Flush / of Invalidate
FailedCode(call) == IF call = "Flush" THEN "kFlushFailed" ELSE "kInvalidateFailed"

\* C19: Flush(offset, size) / Invalidate(offset, size) of a mapped View return
\* OutOfRange if offset >= view.size (also when the length is zero), else
\* InvalidArgument if the resolved length is zero, and in both cases make no
\* platform cache call; otherwise they call the platform and return
\* FlushFailed / InvalidateFailed exactly when a platform call, the last one
\* made, fails.
C19_CacheOpErrors ==
  [][\A v \in Views :
       (ReturnsCacheOp /\ RetObj = v /\ Initialized(v)) =>
         LET offset == last'.args[1]
             size == last'.args[2]
             io == last'.io
         IN /\ offset >= Size(v) =>
                 RetCode = "kOutOfRange" /\ io = <<>>
            /\ (offset < Size(v) /\ ActualSize(Size(v), offset, size) = 0) =>
                 RetCode = "kInvalidArgument" /\ io = <<>>
            /\ (offset < Size(v) /\ ActualSize(Size(v), offset, size) # 0) =>
                 /\ RetCode \in {"kSuccess", FailedCode(last'.call)}
                 /\ Len(io) >= 1
                 /\ \A i \in 1..(Len(io) - 1) : io[i].ret = 0
                 /\ RetCode = FailedCode(last'.call) <=> io[Len(io)].ret # 0
                 /\ \A i \in 1..Len(io) :
                      io[i].op = (IF last'.call = "Flush"
                                  THEN "AX_SYS_MflushCache"
                                  ELSE "AX_SYS_MinvalidateCache")
            /\ UNCHANGED <<buf, view, alloc, maps, memFree>>]_vars

\* Flush or Invalidate of a mapped View with an offset at the end of the View
\* and a zero size, where the range check and the zero-length check both
\* apply, has returned OutOfRange
C19_Witness ==
  /\ last.call \in {"Flush", "Invalidate"} /\ last.code = "kOutOfRange"
  /\ IsMapped(last.obj)
  /\ last.args = <<Size(last.obj), 0>>

\* the total length of the platform cache calls io
RECURSIVE TotalLen(_)
TotalLen(io) == IF io = <<>> THEN 0 ELSE io[1].len + TotalLen(Tail(io))

\* C20: Flush(offset, SIZE_MAX) / Invalidate(offset, SIZE_MAX) of a mapped
\* View with offset < view.size work on exactly [offset, view.size): the
\* first platform call gets the physical address allocation.phys + view.offset
\* + offset and the virtual address Data() + offset, every further call starts
\* where the one before it ended, and on success the lengths add up to
\* view.size - offset.
C20_ToEndOfView ==
  [][\A v \in Views :
       (/\ ReturnsCacheOp /\ RetObj = v /\ Initialized(v)
        /\ last'.args[1] < Size(v) /\ last'.args[2] = SIZE_MAX) =>
         LET offset == last'.args[1]
             io == last'.io
         IN /\ Len(io) >= 1
            /\ io[1].phys =
                 AddU64(AddU64(alloc[view[v].alloc].phy, Offset(v)), offset)
            /\ io[1].data = Data(v) /\ io[1].voff = offset
            /\ \A i \in 2..Len(io) :
                 /\ io[i].phys = AddU64(io[i - 1].phys, io[i - 1].len)
                 /\ io[i].data = Data(v)
                 /\ io[i].voff = io[i - 1].voff + io[i - 1].len
            /\ TotalLen(io) <= Size(v) - offset
            /\ RetCode = "kSuccess" => TotalLen(io) = Size(v) - offset]_vars

\* Flush or Invalidate to the end of the View, from an offset inside it, has
\* succeeded on a View of more than one byte
C20_Witness ==
  /\ last.call \in {"Flush", "Invalidate"} /\ last.code = "kSuccess"
  /\ IsMapped(last.obj)
  /\ last.args = <<1, SIZE_MAX>>
  /\ Size(last.obj) = MaxSize
  /\ TotalLen(last.io) = MaxSize - 1

\* the total length of the first n platform cache calls of io
LenBefore(io, n) == TotalLen(SubSeq(io, 1, n))

\* C21: a successful Flush / Invalidate with resolved length L makes platform
\* calls of at most 2^32 - 1 bytes each, in increasing address order: call k
\* starts at the physical address base_phys + (the lengths of the calls
\* before it) and at the virtual address base_virt + (the same sum), and the
\* lengths add up to L.
C21_Chunks ==
  [][\A v \in Views :
       (ReturnsCacheOp /\ RetObj = v /\ Initialized(v)
          /\ RetCode = "kSuccess") =>
         LET offset == last'.args[1]
             io == last'.io
             base_phys == AddU64(AddU64(alloc[view[v].alloc].phy, Offset(v)),
                                 offset)
         IN /\ \A k \in 1..Len(io) :
                 /\ io[k].len \in 1..AX_U32_MAX
                 /\ io[k].phys = base_phys + LenBefore(io, k - 1)
                 /\ io[k].data = Data(v)
                 /\ io[k].voff = offset + LenBefore(io, k - 1)
            /\ TotalLen(io) =
                 ActualSize(Size(v), offset, last'.args[2])]_vars

\* C22: when a platform call of Flush / Invalidate fails, it is the last call
\* made, the operation returns FlushFailed / InvalidateFailed (never success),
\* and the View stays mapped and registered: nothing but the history of calls
\* changes, so the same call can be made again.
C22_ChunkFailure ==
  [][\A v \in Views :
       (ReturnsCacheOp /\ RetObj = v /\ Initialized(v)) =>
         LET io == last'.io IN
         /\ \A k \in 1..Len(io) :
              io[k].ret # 0 =>
                /\ k = Len(io)
                /\ RetCode = FailedCode(last'.call)
         /\ RetCode = "kSuccess" => \A k \in 1..Len(io) : io[k].ret = 0
         /\ RetCode = FailedCode(last'.call) =>
              /\ Len(io) >= 1 /\ io[Len(io)].ret # 0
              /\ UNCHANGED <<buf, view, alloc, maps, memFree>>
              /\ IsMapped(v)'
              /\ \E i \in 1..Len(alloc'[view'[v].alloc].views) :
                   alloc'[view'[v].alloc].views[i].addr = view'[v].data]_vars

\* a Flush or Invalidate whose second platform call failed has been made
\* again, with the same outcome, on the View that is still mapped
C22_Witness ==
  /\ last.call \in {"Flush", "Invalidate"}
  /\ last.code = FailedCode(last.call)
  /\ last.tick = 1
  /\ Len(last.io) = 2
  /\ IsMapped(last.obj)

----------------------------------------------------------------------------
(* Failed mappings *)

MapCalls == {"MapView", "MapViewFast", "View.MapView", "View.MapViewFast"}
MapFailures == {"kNotInitialized", "kNoAllocation", "kOutOfRange", "kMapFailed"}

\* C23: a MapView / MapViewFast that fails leaves the Allocation as it was.
\* A call of a Buffer takes one reference when it starts and gives it back
\* when it returns the failure, and changes nothing else; a call that fails
\* in a single step (a Buffer without Allocation, every failure of a call of
\* a View) changes nothing at all.  In either case the registry, the physical
\* base, the size and the ownership flag are unchanged, no mapping is added,
\* and the reference count after the return is the one before the call.
C23_FailedMapFrame ==
  [][\A t \in Threads :
       /\ (th[t].pc = "idle" /\ th'[t].pc = "map_mmap"
             /\ th'[t].call \in MapCalls) =>
            /\ alloc' = [alloc EXCEPT ![th'[t].a].refs = @ + 1]
            /\ UNCHANGED <<buf, view, maps, memFree>>
       /\ (th[t].pc = "map_mmap" /\ th'[t].pc = "idle" /\ InMapCall(t)) =>
            /\ RetCode \in MapFailures
            /\ alloc[th[t].a].refs >= 2
            /\ alloc' = [alloc EXCEPT ![th[t].a].refs = @ - 1]
            /\ UNCHANGED <<buf, view, maps, memFree>>
       /\ (Returning = 0 /\ last' # last /\ last'.call \in MapCalls) =>
            /\ RetCode \in MapFailures
            /\ UNCHANGED <<buf, view, alloc, maps, memFree>>
       /\ (last' # last /\ last'.call \in MapCalls
             /\ RetCode \in MapFailures) =>
            /\ maps' = maps
            /\ \A a \in Allocs :
                 /\ alloc'[a].views = alloc[a].views
                 /\ alloc'[a].phy = alloc[a].phy
                 /\ alloc'[a].size = alloc[a].size
                 /\ alloc'[a].owned = alloc[a].owned
                 /\ Refs(alloc', a) = HolderCount(a)']_vars

\* a MapView of a Buffer has failed in its mapping while the Allocation has
\* registered Views
C23_Witness ==
  /\ last.call = "MapView" /\ last.code = "kMapFailed"
  /\ buf[last.obj].alloc # 0
  /\ alloc[buf[last.obj].alloc].views # <<>>
  /\ alloc[buf[last.obj].alloc].refs = 1 + Len(alloc[buf[last.obj].alloc].views)

----------------------------------------------------------------------------
(* Coherency of the mapped memory *)

\* byte i of a View lies in the range [offset, offset + size) of a Flush /
\* Invalidate of that View, size SIZE_MAX meaning to the end of the View
InOpRange(v, i, offset, size) ==
  /\ i < Size(v)
  /\ offset <= i
  /\ size = SIZE_MAX \/ i < offset + size

\* C24: when a Flush(offset, len) of a cached View succeeds, every byte of
\* [offset, offset + len) that was written through the cached View and is
\* still held in the cache (a dirty line with the pattern P) is in memory
\* afterwards: every non-cached View over the same physical byte reads P, and
\* no line of the range stays dirty.  Nothing is claimed of other bytes.
C24_FlushVisible ==
  [][\A v \in Views :
       (Returns("Flush") /\ RetObj = v /\ Initialized(v)
          /\ Mode(v) = "kCached" /\ RetCode = "kSuccess") =>
         \A i \in 0..(MaxSize - 1) :
           InOpRange(v, i, last'.args[1], last'.args[2]) =>
             LET p == ByteAddr(v, i) IN
             /\ ~cache'[p].dirty
             /\ (cache[p].present /\ cache[p].dirty) =>
                  /\ mem'[p] = cache[p].val
                  /\ \A w \in Views, j \in 0..(MaxSize - 1) :
                       (IsMapped(w) /\ Mode(w) = "kNonCached" /\ j < Size(w)
                          /\ ByteAddr(w, j) = p) =>
                         Load(w, j)' = cache[p].val]_vars

\* Flush(1, 1) of the cached alias has succeeded: byte 1 reads the same
\* through both Views, while byte 0, outside the flushed range, is still
\* dirty in the cache and differs in memory
C24_Witness ==
  /\ last.call = "Flush" /\ last.code = "kSuccess" /\ last.args = <<1, 1>>
  /\ Mode(last.obj) = "kCached" /\ IsMapped(last.obj)
  /\ \E w \in Views :
       /\ IsMapped(w) /\ Mode(w) = "kNonCached"
       /\ ByteAddr(w, 0) = ByteAddr(last.obj, 0)
       /\ Load(w, 1) = 1 /\ Load(last.obj, 1) = 1
       /\ Load(w, 0) # Load(last.obj, 0)

\* C25: when an Invalidate over a range of a cached View succeeds, no byte of
\* the range is left in the cache (a dirty line is discarded, not written
\* back); and a store through a non-cached alias to a byte the cache does not
\* hold is what a load through the cached View gets afterwards.
C25_InvalidateRefetches ==
  [][/\ \A v \in Views :
          (Returns("Invalidate") /\ RetObj = v /\ Initialized(v)
             /\ Mode(v) = "kCached" /\ RetCode = "kSuccess") =>
            \A i \in 0..(MaxSize - 1) :
              InOpRange(v, i, last'.args[1], last'.args[2]) =>
                /\ ~cache'[ByteAddr(v, i)].present
                /\ mem'[ByteAddr(v, i)] = mem[ByteAddr(v, i)]
                /\ Load(v, i)' = mem[ByteAddr(v, i)]
     /\ (mem' # mem /\ cache' = cache /\ last' = last) =>
          \A v \in Views, i \in 0..(MaxSize - 1) :
            (IsMapped(v) /\ Mode(v) = "kCached" /\ i < Size(v)
               /\ ~cache[ByteAddr(v, i)].present) =>
              /\ Load(v, i)' = mem'[ByteAddr(v, i)]
              /\ \A w \in Views, j \in 0..(MaxSize - 1) :
                   (IsMapped(w) /\ Mode(w) = "kNonCached" /\ j < Size(w)
                      /\ ByteAddr(w, j) = ByteAddr(v, i)) =>
                     Load(v, i)' = Load(w, j)']_vars

\* after Invalidate of the whole cached alias, stores through the non-cached
\* base View are what both Views read
C25_Witness ==
  /\ last.call = "Invalidate" /\ last.code = "kSuccess"
  /\ last.args = <<0, SIZE_MAX>>
  /\ Mode(last.obj) = "kCached" /\ IsMapped(last.obj)
  /\ \E w \in Views :
       /\ IsMapped(w) /\ Mode(w) = "kNonCached"
       /\ ByteAddr(w, 0) = ByteAddr(last.obj, 0)
       /\ \A i \in 0..(MaxSize - 1) :
            /\ ~cache[ByteAddr(w, i)].present
            /\ Load(w, i) = 1 /\ Load(last.obj, i) = 1

----------------------------------------------------------------------------
(* Concurrent calls *)

\* C26: whatever the interleaving of the threads' MapView / MapViewFast and
\* Reset calls, whenever all calls have returned the registry of every live
\* Allocation has exactly one entry per live View of it, the entry of that
\* View.
C26_NoLostUpdate ==
  Quiescent =>
    \A a \in Allocs :
      alloc[a].st = "live" =>
        /\ Len(alloc[a].views) = Cardinality(ViewHolders(a))
        /\ RegistryBag(a) = ViewBag(a)

\* one thread is about to register the View it has mapped while the other
\* is about to remove the entry of the View it resets, on the same Allocation
C26_Witness ==
  \E t, u \in Threads :
    /\ th[t].pc = "map_register" /\ th[t].call \in MapCalls
    /\ th[u].pc = "reset_erase"
    /\ th[t].a = th[u].a
    /\ alloc[th[t].a].views # <<>>

\* the calls that take a Buffer out of Idle
EnterCallNames == {"Allocate", "AttachExternal"}

\* the Allocations taken into use in this step
Taken == {a \in Allocs : alloc[a].st = "unused" /\ alloc'[a].st # "unused"}

ReleaseCalls == {"Free", "DetachExternal"}
BufferMapCalls == {"MapView", "MapViewFast"}

\* thread t is inside a mapping call of Buffer b that has captured
\* Allocation a
Captured(t, b, a) ==
  /\ th[t].pc \in {"map_mmap", "map_register"}
  /\ th[t].call \in BufferMapCalls
  /\ th[t].b = b /\ th[t].a = a

\* no platform free has been called for Allocation a and no handle of it
\* has been dropped for the last time
Unreleased(a) == a # 0 /\ alloc[a].st = "live" /\ memFree[a] = 0

\* C28: Free / DetachExternal and MapView / MapViewFast of two threads on
\* one Buffer.  A release call that runs while a mapping call of the Buffer
\* holds the Allocation it captured releases nothing, and fails with
\* ReferencesRemain when it is the release call of the Buffer's state; a
\* mapping call that starts after the release returns NoAllocation and does
\* nothing; a release call succeeds only when no mapping call holds the
\* Allocation and no View references it.  In every state the Allocation of
\* every live View is unreleased, and so is the Allocation of every call
\* about to invoke the platform mapping primitive.
C28_ReleaseOrMap ==
  /\ [](/\ \A v \in Views : view[v].impl => Unreleased(view[v].alloc)
        /\ \A t \in Threads : th[t].pc = "map_mmap" => Unreleased(th[t].a))
  /\ [][ \A b \in Buffers :
           /\ ( /\ \E c \in ReleaseCalls : Returns(c)
                /\ RetObj = b
                /\ \E t \in Threads : Captured(t, b, buf[b].alloc) )
              => /\ RetCode # "kSuccess"
                 /\ buf' = buf /\ alloc' = alloc /\ memFree' = memFree
                 /\ (Returns("Free") /\ BufState(b) = "Owned")
                      => RetCode = "kReferencesRemain"
                 /\ (Returns("DetachExternal") /\ BufState(b) = "Attached")
                      => RetCode = "kReferencesRemain"
           /\ ( /\ \E c \in ReleaseCalls : Returns(c)
                /\ RetObj = b /\ RetCode = "kSuccess" )
              => /\ ~ \E t \in Threads : ThRefs(t, buf[b].alloc) > 0
                 /\ ViewHolders(buf[b].alloc) = {}
                 /\ buf'[b].alloc = 0
           /\ ( /\ \E c \in BufferMapCalls : Returns(c)
                /\ Returning = 0 /\ RetObj = b /\ buf[b].alloc = 0 )
              => /\ RetCode = "kNoAllocation"
                 /\ buf' = buf /\ alloc' = alloc /\ memFree' = memFree
                 /\ maps' = maps /\ view' = view ]_vars

\* a Free or DetachExternal has just returned ReferencesRemain while the
\* other thread is between the capture and the platform mapping call of a
\* MapView / MapViewFast on the same Buffer, and no View is alive
C28_Witness ==
  \E t \in Threads, b \in Buffers :
    /\ th[t].pc = "map_mmap" /\ Captured(t, b, buf[b].alloc)
    /\ ViewHolders(buf[b].alloc) = {}
    /\ last.call \in ReleaseCalls /\ last.obj = b
    /\ last.code = "kReferencesRemain"

----------------------------------------------------------------------------
(* Propagation of platform failures *)

\* C29: a call that returns success has had no platform call of its own
\* report a failure: whenever a platform call a returning operation made
\* returned non-zero, the operation's Result is an error.
C29_FailureSurfaces ==
  [][ last' # last =>
        \A i \in 1..Len(last'.io) :
          last'.io[i].ret # 0 => last'.code # "kSuccess" ]_vars

----------------------------------------------------------------------------
(* Result<T> *)

\* this step is a call of accessor op on the Result
Accesses(op) == resultLog' # resultLog /\ resultLog'.op = op

\* C30: a Result is truthy exactly when it was constructed as success;
\* Code() returns kSuccess when it is truthy and the stored code otherwise;
\* Message() returns the empty string when it is truthy; on an error Result
\* the factory is invoked at most once, by the first Message() call, which
\* returns the factory's string (the empty string without a factory), and
\* every later Message() call returns the same string.
C30_ResultAccessors ==
  [][ /\ Accesses("bool") => (resultLog'.truthy <=> resultLog.ctor = "Ok")
      /\ Accesses("Code") =>
           resultLog'.codeRet = IF resultLog.ctor = "Ok" THEN "kSuccess"
                                ELSE resultLog.code
      /\ Accesses("Message") =>
           IF resultLog.ctor = "Ok"
           THEN resultLog'.msgRet = "" /\ resultLog'.invoked = 0
           ELSE /\ resultLog'.invoked <= 1
                /\ resultLog'.invoked > resultLog.invoked
                     => resultLog.messages = 0
                /\ IF resultLog.messages = 0
                   THEN resultLog'.msgRet =
                          IF resultLog.factory.callable
                          THEN resultLog.factory.text ELSE ""
                   ELSE resultLog'.msgRet = resultLog.first
      /\ result'.ok = result.ok /\ result'.error.code = result.error.code ]_vars

\* an error Result whose factory returns the empty string has been asked for
\* its message twice
C30_Witness ==
  /\ resultLog.ctor = "Error"
  /\ resultLog.factory = Factory("")
  /\ resultLog.messages >= 2
  /\ resultLog.invoked = 1

----------------------------------------------------------------------------
(* System *)

\* the System objects whose ok_ is set
OkSystems == {s \in Systems : sys.obj[s].live /\ sys.obj[s].ok}

\* C31: AX_SYS_Deinit has never been called more often than AX_SYS_Init has
\* succeeded; the Inits not yet matched by a Deinit are those of the System
\* objects whose Ok() is true, so once every System is destroyed each
\* successful Init has had exactly one Deinit; a moved-from System reports
\* Ok() false, and destroying it or moving from it calls no Deinit.
C31_InitDeinitBalanced ==
  /\ [](/\ sys.deinit <= sys.init
        /\ sys.init - sys.deinit = Cardinality(OkSystems)
        /\ (\A s \in Systems : ~sys.obj[s].live) => sys.deinit = sys.init
        /\ \A s \in Systems : sys.obj[s].moved => ~Ok(s))
  /\ [][ \A s \in Systems :
           (sys.obj[s].moved /\ ~sys'.obj[s].live) => sys'.deinit = sys.deinit ]_vars

\* a moved-from System is still alive next to the System that took its ok_,
\* and an AX_SYS_Deinit has been called
C31_Witness ==
  \E s, o \in Systems :
    /\ sys.obj[s].live /\ sys.obj[s].moved
    /\ sys.obj[o].live /\ Ok(o)
    /\ sys.deinit >= 1

----------------------------------------------------------------------------
(* Release of the block *)

----------------------------------------------------------------------------
(* Flush / Invalidate over the whole size_t range *)

\* C33: whatever offset and size are, the platform cache calls of a Flush /
\* Invalidate on a mapped View ask for at most view.size - offset bytes in
\* total; a request with offset < view.size whose end offset + size (modulo
\* the width of size_t) lies beyond view.size asks for exactly the bytes of
\* [offset, view.size).
C33_WithinWindow ==
  [][\A v \in Views :
       (ReturnsCacheOp /\ RetObj = v /\ Initialized(v)) =>
         LET offset == last'.args[1]
             size == last'.args[2]
             io == last'.io
         IN /\ Len(io) > 0 => offset < Size(v)
            /\ offset < Size(v) => TotalLen(io) <= Size(v) - offset
            /\ (offset < Size(v) /\ AddSz(offset, size) > Size(v)
                  /\ RetCode = "kSuccess")
                 => TotalLen(io) = Size(v) - offset ]_vars

----------------------------------------------------------------------------
(* What ReferencesRemain reports *)

\* the Buffer handles other than b that hold Allocation a
OtherBuffers(a, b) == BufHolders(a) \ {b}

\* C34 as stated: Free / DetachExternal return ReferencesRemain only if a
\* live View or another Buffer handle references the Allocation.
C34_OnlyViewsAndBuffers ==
  [][\A b \in Buffers :
       ( /\ \E c \in ReleaseCalls : Returns(c)
         /\ RetObj = b /\ RetCode = "kReferencesRemain" )
       => /\ buf[b].alloc # 0
          /\ ViewHolders(buf[b].alloc) # {} \/ OtherBuffers(buf[b].alloc, b) # {}
    ]_vars

\* C34: Free / DetachExternal return ReferencesRemain only if something
\* besides the Buffer's own handle holds a reference to the Allocation at the
\* time of the call: a live View, another Buffer handle, or a call in
\* progress (a mapping call that has captured the Allocation, a Reset that
\* has not yet deleted its Impl); Free on an owned Buffer, and
\* DetachExternal on an attached one, succeed when there is none of these.
C34_ReferencesRemain ==
  [][\A b \in Buffers :
       ( /\ \E c \in ReleaseCalls : Returns(c)
         /\ RetObj = b )
       => LET a == buf[b].alloc
              held == /\ a # 0
                      /\ \/ ViewHolders(a) # {}
                         \/ OtherBuffers(a, b) # {}
                         \/ \E t \in Threads : ThRefs(t, a) > 0
          IN /\ RetCode = "kReferencesRemain" => held
             /\ ( /\ ~held
                  /\ \/ Returns("Free") /\ BufState(b) = "Owned"
                     \/ Returns("DetachExternal") /\ BufState(b) = "Attached" )
                => RetCode = "kSuccess" ]_vars

\* a Free / DetachExternal has returned ReferencesRemain on a Buffer whose
\* Allocation no View and no other Buffer references, while the other thread
\* is inside a MapView on it
C34_Witness ==
  \E t \in Threads, b \in Buffers :
    /\ Captured(t, b, buf[b].alloc)
    /\ ViewHolders(buf[b].alloc) = {} /\ OtherBuffers(buf[b].alloc, b) = {}
    /\ last.call \in ReleaseCalls /\ last.obj = b
    /\ last.code = "kReferencesRemain"
    /\ th[t].pc = "map_register"

----------------------------------------------------------------------------
(* Mappings larger than the platform's length type *)

\* C36: a MapView / MapViewFast with size > 2^32 - 1 that has found an
\* Allocation returns in its next step without a View: with MapFailed when
\* the range check lets it through (OutOfRange otherwise), no mapping is
\* made and no entry registered.  So every live View and every registry
\* entry has size <= 2^32 - 1, and the Reset of a mapped View unmaps its
\* address.
C36_TooLargeToMap ==
  /\ [](/\ \A v \in Views : view[v].impl => view[v].size <= AX_U32_MAX
        /\ \A a \in Allocs : \A i \in 1..Len(alloc[a].views) :
             alloc[a].views[i].size <= AX_U32_MAX)
  /\ [][ /\ \A t \in Threads :
              (th[t].pc = "map_mmap" /\ th[t].size > AX_U32_MAX /\ th'[t] # th[t])
              => /\ th'[t].pc = "idle"
                 /\ RetCode = IF AddSz(th[t].off, th[t].size) > RangeLimit(th[t])
                              THEN "kOutOfRange" ELSE "kMapFailed"
                 /\ maps' = maps /\ view' = view
                 /\ \A a \in Allocs : alloc'[a].views = alloc[a].views
         /\ \A v \in Views :
              (view[v].impl /\ ~view'[v].impl /\ view[v].data # 0)
              => maps'[view[v].data].n = maps[view[v].data].n - 1 ]_vars

\* a MapView of 2^32 bytes of an attached Allocation that large has passed
\* the range check
C36_Witness ==
  \E t \in Threads :
    /\ th[t].pc = "map_mmap" /\ th[t].size > AX_U32_MAX
    /\ AddSz(th[t].off, th[t].size) <= RangeLimit(th[t])
    /\ ~alloc[th[t].a].owned

----------------------------------------------------------------------------
(* Move assignment of Views *)

\* number of mappings the platform has handed out and not unmapped, and
\* number of registry entries
RECURSIVE SumOver(_, _)
SumOver(f, S) ==
  IF S = {} THEN 0
  ELSE LET x == CHOOSE y \in S : TRUE IN f[x] + SumOver(f, S \ {x})
LiveMappings == SumOver([x \in Addrs |-> maps[x].n], Addrs)
RegistryEntries == SumOver([a \in Allocs |-> Len(alloc[a].views)], Allocs)

\* C37: A = std::move(B) with A live and B another View.  Its first step
\* empties A and unmaps A's address once; its second removes one registry
\* entry, of A's address, from A's Allocation; its last releases one
\* reference to that Allocation (calling AX_SYS_MemFree exactly when it was
\* the last one of an owned Allocation), gives A what B had and empties B,
\* with no platform mapping or unmapping.  Only the first step changes the
\* mappings, by minus one, and only the second the registries, by minus one.
\* With A empty, or A and B the same View, the assignment is one step that
\* maps, unmaps and releases nothing.
C37_MoveAssign ==
  [][\A t \in Threads :
       LET L == th[t]
           N == th'[t]
       IN
       /\ (L.pc = "idle" /\ N.pc # "idle" /\ N.call = "View.operator=") =>
            /\ view[N.v].impl /\ N.arg # N.v
            /\ view' = [view EXCEPT ![N.v] = NoView]
            /\ N.a = view[N.v].alloc /\ N.addr = view[N.v].data
            /\ LiveMappings' = LiveMappings - 1
            /\ maps'[N.addr].n = maps[N.addr].n - 1
            /\ alloc' = alloc /\ memFree' = memFree
       /\ (L.call = "View.operator=" /\ L.pc = "reset_erase" /\ N # L) =>
            /\ N.pc = "reset_delete"
            /\ RegistryEntries' = RegistryEntries - 1
            /\ \E i \in 1..Len(alloc[L.a].views) :
                 /\ alloc[L.a].views[i].addr = L.addr
                 /\ alloc'[L.a].views = Without(alloc[L.a].views, i)
            /\ alloc'[L.a].refs = alloc[L.a].refs
            /\ maps' = maps /\ view' = view /\ memFree' = memFree
       /\ (L.call = "View.operator=" /\ L.pc = "reset_delete" /\ N # L) =>
            /\ N.pc = "idle" /\ Returns("View.operator=") /\ RetObj = L.v
            /\ view'[L.v] = view[L.arg] /\ view'[L.arg] = NoView
            /\ maps' = maps
            /\ IF alloc[L.a].refs > 1
               THEN /\ alloc'[L.a] = [alloc[L.a] EXCEPT !.refs = @ - 1]
                    /\ memFree' = memFree
               ELSE /\ alloc'[L.a].st = "dead"
                    /\ alloc[L.a].views = <<>>
                    /\ memFree'[L.a] =
                         memFree[L.a] + (IF alloc[L.a].owned THEN 1 ELSE 0)
            /\ \A a \in Allocs \ {L.a} : alloc'[a] = alloc[a]
       /\ (Returns("View.operator=") /\ Returning = 0) =>
            /\ maps' = maps /\ alloc' = alloc /\ memFree' = memFree
            /\ ~view[RetObj].impl \/ view' = view
            /\ view' = view
               \/ \E o \in Views \ {RetObj} :
                    view' = [view EXCEPT ![RetObj] = view[o], ![o] = NoView]
    ]_vars

\* A = std::move(B) is about to delete A's Impl, which holds the last
\* reference to an owned Allocation, and B is a live View of another one
C37_Witness ==
  \E t \in Threads :
    /\ th[t].call = "View.operator=" /\ th[t].pc = "reset_delete"
    /\ alloc[th[t].a].refs = 1 /\ alloc[th[t].a].owned
    /\ view[th[t].arg].impl /\ view[th[t].arg].alloc # th[t].a
    /\ maps[view[th[t].arg].data].n = 1

\* C38: between its creation and its destruction an Allocation keeps its
\* physical base, its size and its ownership flag, and while a View is live
\* the View keeps referring to the same Allocation, which stays alive with the
\* same three fields, whatever is called on any Buffer, a Buffer from
\* MakeBuffer included.
C38_AllocationImmutable ==
  [][/\ \A a \in Allocs :
          (alloc[a].st = "live" /\ alloc'[a].st = "live") =>
            /\ alloc'[a].phy = alloc[a].phy
            /\ alloc'[a].size = alloc[a].size
            /\ alloc'[a].owned = alloc[a].owned
     /\ \A a \in Allocs :
          (alloc[a].st = "unused" /\ alloc'[a].st = "live") =>
            \/ Returns("AttachExternal") /\ ~alloc'[a].owned
            \/ \E t \in Threads : th'[t].call = "Allocate" /\ alloc'[a].owned
     /\ \A v \in Views :
          (view[v].impl /\ view'[v].impl) =>
            /\ view'[v].alloc = view[v].alloc
            /\ alloc[view[v].alloc].st = "live"
            /\ alloc'[view[v].alloc].st = "live"
    ]_vars

\* AttachExternal was called on a Buffer that MakeBuffer produced from a View
\* and returned AlreadyInitialized; the View is live and its Allocation is
\* shared by the two Buffers
C38_Witness ==
  /\ last.call = "AttachExternal" /\ last.code = "kAlreadyInitialized"
  /\ buf[last.obj].alloc # 0
  /\ ViewHolders(buf[last.obj].alloc) # {}
  /\ Cardinality(BufHolders(buf[last.obj].alloc)) >= 2
  /\ alloc[buf[last.obj].alloc].st = "live"

C39_RegistryUnderMutex ==
  mtx.access.by # 0 => mtx.access.locked

====
